---- MODULE Spec2Model ----
(***************************************************************************)
(* Event-journey analytics of analise_ga4.py (show_user_journey_page and   *)
(* create_funnel_chart): the funnel, the navigation paths, the conversion  *)
(* times and the flow graph computed from the filtered event table         *)
(* journey_df.                                                             *)
(*                                                                         *)
(* The event table is a sequence of rows in file order.  A row keeps the   *)
(* columns the analyses read: client_id, session_number, event_name and    *)
(* event_timestamp (microseconds).  pd.read_csv turns an empty client_id   *)
(* cell into NaN; load_data checks that the column exists, not that its    *)
(* cells are filled, so NaN is a value a row can hold.                     *)
(*                                                                         *)
(* load_data and calculate_session_metrics are modelled after the tabs,    *)
(* with a specification of their own.                                      *)
(***************************************************************************)
EXTENDS Integers, Sequences, FiniteSets, TLC

VARIABLES journey_df,   \* the filtered event table the four tabs read
          funnel,       \* tab3: outcome of the last "Gerar Funil"
          paths,        \* tab1: outcome of the path ranking
          conversion,   \* tab2: outcome of "Analisar Tempos de Conversao"
          flow,         \* tab4: outcome of "Analisar Fluxo de Eventos"
          uploaded_file,  \* the CSV file handed to load_data, as read_csv reads it
          loaded_df,    \* what load_data returned for it
          session_metrics,  \* what calculate_session_metrics made of it
          renormalized  \* the table after load_data's enrichment ran on it again

\* the variables of the loader
loader == <<uploaded_file, loaded_df, session_metrics, renormalized>>

vars == <<journey_df, funnel, paths, conversion, flow, uploaded_file,
          loaded_df, session_metrics, renormalized>>

(***************************************************************************)
(* Bounds of the model and the value sets the rows are drawn from.         *)
(***************************************************************************)
MaxFunnelRows == 3    \* longest table of the exhaustive family of the funnel
MaxPathRows == 3      \* ... of the navigation paths
MaxConversionRows == 3 \* ... of the conversion times
MaxMinutesTried == 2  \* "Tempo maximo" is tried from 1 to this many minutes
MaxFlowRows == 3      \* longest table of the exhaustive family of the flow graph
MaxOccurrencesTried == 2 \* "Minimo de ocorrencias" is tried from 1 to this

MicrosPerSecond == 1000000
TickMicros == 60 * MicrosPerSecond     \* one tick of the model's clock

NaN == "NaN"                           \* a missing client_id
NotRun == [status |-> "not_run"]       \* a tab whose button was not pressed

\* no file was handed to load_data
LoaderIdle ==
    /\ uploaded_file = NotRun
    /\ loaded_df = NotRun
    /\ session_metrics = NotRun
    /\ renormalized = NotRun

\* a row of the journey table with the columns the journey page reads; an
\* absent session_source or session_medium is NaN, as read_csv leaves it
RowOf(c, s, e, t, logged, source, medium) ==
    [client_id |-> c, session_number |-> s, event_name |-> e,
     event_timestamp |-> t, is_logged_in |-> logged,
     session_source |-> source, session_medium |-> medium]

\* a row of an anonymous visit from google/organic
Row(c, s, e, t) == RowOf(c, s, e, t, FALSE, "google", "organic")

SeqsUpTo(S, n) == UNION {[1..k -> S] : k \in 0..n}

(***************************************************************************)
(* Helpers on sequences and sets.                                          *)
(***************************************************************************)
Range(s) == {s[i] : i \in DOMAIN s}

RECURSIVE SumSeq(_)
SumSeq(s) == IF s = <<>> THEN 0 ELSE s[1] + SumSeq(Tail(s))

MaxOf(S) == CHOOSE x \in S : \A y \in S : y <= x

MinOf(S) == CHOOSE x \in S : \A y \in S : x <= y

\* the distinct members of s in the order of their first appearance
RECURSIVE Dedup(_)
Dedup(s) ==
    IF s = <<>> THEN <<>>
    ELSE LET d == Dedup(SubSeq(s, 1, Len(s) - 1))
         IN  IF s[Len(s)] \in Range(d) THEN d ELSE Append(d, s[Len(s)])

\* s1 \o s2 \o ... for a sequence of sequences
RECURSIVE Concat(_)
Concat(ss) == IF ss = <<>> THEN <<>> ELSE Head(ss) \o Concat(Tail(ss))

\* The order pandas gives client ids: strings ascending, NaN last.
ClientRank(c) == CASE c = "u1" -> 1 [] c = "u2" -> 2 [] c = "u3" -> 3
                   [] OTHER -> 4

\* a < b for two integer tuples of one length, column by column
LexLess(a, b) ==
    \E k \in DOMAIN a :
        /\ a[k] < b[k]
        /\ \A h \in 1..(k - 1) : a[h] = b[h]

\* df['event_name'].unique() as a set
EventNamesOf(df) == {df[i].event_name : i \in DOMAIN df}

\* all orderings without repetition of the members of S with length in lo..hi:
\* what st.multiselect can return over the options S
Orderings(S, lo, hi) ==
    {q \in UNION {[1..k -> S] : k \in lo..hi} :
        \A i, j \in DOMAIN q : i # j => q[i] # q[j]}

(***************************************************************************)
(* Tab 3, "Analise de Funil".                                              *)
(***************************************************************************)
\* set(a).intersection(set(b)) over client ids.  Python compares set members
\* by identity before equality: the NaN of an object column is one shared
\* object and is found in both sets, the NaNs of a float64 column are fresh
\* objects that never match.  nan_equal says which column type the file gave.
SetIntersection(a, b, nan_equal) ==
    {x \in a \cap b : x # NaN \/ nan_equal}

\* set(df[df['event_name'] == event]['client_id'].unique())
users_with_event(df, event) ==
    {df[i].client_id : i \in {j \in DOMAIN df : df[j].event_name = event}}

\* the plausible slip: the sets are joined (|) where they should be cut (&)
users_in_funnel_union(remaining_users, with_event, nan_equal) ==
    remaining_users \cup with_event

\* the plausible slip: the running intersection is forgotten
users_in_funnel_no_intersection(remaining_users, with_event, nan_equal) ==
    with_event

users_in_funnel(remaining_users, with_event, nan_equal) ==
    SetIntersection(remaining_users, with_event, nan_equal)

\* event_counts[event] = n on a dict kept as a sequence of items: a key that
\* is already there keeps its place and takes the new value
DictSet(d, k, v) ==
    IF \E i \in DOMAIN d : d[i].Evento = k
    THEN [i \in DOMAIN d |->
             IF d[i].Evento = k THEN [Evento |-> k, Usuarios |-> v] ELSE d[i]]
    ELSE Append(d, [Evento |-> k, Usuarios |-> v])

RECURSIVE funnel_loop(_, _, _, _, _)
funnel_loop(df, event_sequence, remaining_users, event_counts, nan_equal) ==
    IF event_sequence = <<>> THEN event_counts
    ELSE LET event == Head(event_sequence)
             in_funnel == users_in_funnel(remaining_users,
                                          users_with_event(df, event), nan_equal)
         IN  funnel_loop(df, Tail(event_sequence), in_funnel,
                         DictSet(event_counts, event, Cardinality(in_funnel)),
                         nan_equal)

\* round(n / d, 0) as Python rounds: to the nearest integer, halves to even
RoundHalfEven(n, d) ==
    LET q == n \div d
        r == n % d
    IN  IF 2 * r < d THEN q
        ELSE IF 2 * r > d THEN q + 1
        ELSE IF q % 2 = 0 THEN q ELSE q + 1

\* round(curr_users / prev_users * 100 if prev_users > 0 else 0, 1), in tenths
\* of a percent (66.7 is 667)
step_rate(prev_users, curr_users) ==
    IF prev_users > 0 THEN RoundHalfEven(1000 * curr_users, prev_users) ELSE 0

\* the plausible slip: every rate is taken against the first step, as the
\* chart's "percent initial" label does
conversion_rates_from_first(counts) ==
    [i \in DOMAIN counts |->
        IF i = 1 THEN 1000 ELSE step_rate(counts[1], counts[i])]

\* funnel_df['Taxa de Conversao']: 100.0 on the first row, then one rate per
\* row against the row before
conversion_rates(counts) ==
    [i \in DOMAIN counts |->
        IF i = 1 THEN 1000 ELSE step_rate(counts[i - 1], counts[i])]

\* the plausible slip: the funnel follows (client_id, session_number) pairs
create_funnel_chart_by_session(df, event_sequence, nan_equal) ==
    LET pairs == [i \in DOMAIN df |->
                     [df[i] EXCEPT !.client_id = <<@, df[i].session_number>>]]
        event_counts ==
            funnel_loop(pairs, event_sequence,
                        {pairs[i].client_id : i \in DOMAIN pairs}, <<>>, TRUE)
        counts == [i \in DOMAIN event_counts |-> event_counts[i].Usuarios]
    IN  [Evento   |-> [i \in DOMAIN event_counts |-> event_counts[i].Evento],
         Usuarios |-> counts,
         Taxa     |-> conversion_rates(counts)]

\* create_funnel_chart(df, event_sequence): the table funnel_df
create_funnel_chart(df, event_sequence, nan_equal) ==
    LET event_counts ==
            funnel_loop(df, event_sequence,
                        {df[i].client_id : i \in DOMAIN df}, <<>>, nan_equal)
        counts == [i \in DOMAIN event_counts |-> event_counts[i].Usuarios]
    IN  [Evento   |-> [i \in DOMAIN event_counts |-> event_counts[i].Evento],
         Usuarios |-> counts,
         Taxa     |-> conversion_rates(counts)]

\* event_data.groupby(groupby_cols).size().shape[0]: the number of groups;
\* groupby leaves out the rows whose key is NaN
group_keys(df, session_based) ==
    {IF session_based THEN <<df[i].client_id, df[i].session_number>>
                      ELSE <<df[i].client_id>> :
        i \in {j \in DOMAIN df : df[j].client_id # NaN}}

unique_count(df, event, session_based) ==
    Cardinality(group_keys(SelectSeq(df, LAMBDA r : r.event_name = event),
                           session_based))

\* the plausible slip: the rate is taken against the first step's count
unordered_base_first(counts) == counts[1]

\* max_count = funnel_df['Usuarios/Sessoes'].max()
unordered_base(counts) == MaxOf(Range(counts))

\* funnel_df['Taxa (%)'] = count / max_count * 100, kept as the fraction
\* num/den; den = 0 is the NaN that pandas gives for 0 / 0
unordered_funnel(df, funnel_events, session_based) ==
    LET counts == [i \in DOMAIN funnel_events |->
                      unique_count(df, funnel_events[i], session_based)]
        max_count == unordered_base(counts)
    IN  [Evento    |-> funnel_events,
         Contagem  |-> counts,
         max_count |-> max_count,
         Taxa      |-> [i \in DOMAIN counts |->
                           [num |-> counts[i] * 100, den |-> max_count]]]

\* available_events = sorted(journey_df['event_name'].unique())
available_events(df) == EventNamesOf(df)

\* what st.multiselect over available_events can return
funnel_choices(df) ==
    Orderings(available_events(df), 0, Cardinality(available_events(df)))

\* "Gerar Funil" with "Ordem estrita dos eventos" ticked
GerarFunilStrict ==
    /\ Cardinality(available_events(journey_df)) >= 2
    /\ \E funnel_events \in funnel_choices(journey_df),
          session_based \in BOOLEAN, nan_equal \in BOOLEAN :
        /\ Len(funnel_events) >= 2
        /\ LET funnel_df == SelectSeq(journey_df,
                   LAMBDA r : r.event_name \in Range(funnel_events))
               funnel_data == create_funnel_chart(funnel_df, funnel_events,
                                                  nan_equal)
           IN  funnel' = [status |-> "strict", session_based |-> session_based,
                          steps |-> funnel_events, nan_equal |-> nan_equal,
                          data |-> funnel_data]
    /\ UNCHANGED <<loader, journey_df, paths, conversion, flow>>

\* "Gerar Funil" with "Ordem estrita dos eventos" unticked
GerarFunilUnordered ==
    /\ Cardinality(available_events(journey_df)) >= 2
    /\ \E funnel_events \in funnel_choices(journey_df),
          session_based \in BOOLEAN :
        /\ Len(funnel_events) >= 2
        /\ funnel' = [status |-> "unordered", session_based |-> session_based,
                      steps |-> funnel_events,
                      data |-> unordered_funnel(journey_df, funnel_events,
                                                session_based)]
    /\ UNCHANGED <<loader, journey_df, paths, conversion, flow>>

\* tab 3 with fewer than two events to choose from, or fewer than two chosen:
\* a warning and no funnel
FunilRecusado ==
    /\ \/ Cardinality(available_events(journey_df)) < 2
       \/ \E funnel_events \in funnel_choices(journey_df) :
            Len(funnel_events) < 2
    /\ funnel' = [status |-> "warning"]
    /\ UNCHANGED <<loader, journey_df, paths, conversion, flow>>

(***************************************************************************)
(* The tables of the funnel's specification: every table of at most        *)
(* MaxFunnelRows rows over two clients (one of them with two sessions), a  *)
(* missing client and three events; and the presence tables, one row per   *)
(* (client, event) pair that a yes/no matrix over three clients and three  *)
(* events marks.                                                           *)
(***************************************************************************)
FunnelRows ==
    {Row(k[1], k[2], e, 0) :
        k \in {<<"u1", 1>>, <<"u1", 2>>, <<"u2", 1>>, <<NaN, 1>>},
        e \in {"A", "B", "C"}}

PresencePairs ==
    << <<"u1", "A">>, <<"u2", "A">>, <<"u3", "A">>,
       <<"u1", "B">>, <<"u2", "B">>, <<"u3", "B">>,
       <<"u1", "C">>, <<"u2", "C">>, <<"u3", "C">> >>

PresenceTable(marked) ==
    LET chosen == SelectSeq(PresencePairs, LAMBDA p : p \in marked)
    IN  [i \in DOMAIN chosen |-> Row(chosen[i][1], 1, chosen[i][2], 0)]

FunnelTables ==
    SeqsUpTo(FunnelRows, MaxFunnelRows)
        \cup {PresenceTable(m) : m \in SUBSET Range(PresencePairs)}

InitFunnel ==
    /\ journey_df \in FunnelTables
    /\ funnel = NotRun
    /\ paths = NotRun
    /\ conversion = NotRun
    /\ flow = NotRun
    /\ LoaderIdle

\* One request: the page is rendered once over the table.  Streamlit runs the
\* script from the top on every click and keeps nothing of the run before, so
\* a second click computes from journey_df alone what the first would have.
FirstRun ==
    /\ funnel = NotRun
    /\ paths = NotRun
    /\ conversion = NotRun
    /\ flow = NotRun

NextFunnel ==
    /\ FirstRun
    /\ (GerarFunilStrict \/ GerarFunilUnordered \/ FunilRecusado)

SpecFunnel == InitFunnel /\ [][NextFunnel]_vars

(***************************************************************************)
(* Properties of the funnel.                                               *)
(***************************************************************************)
\* C1: the counts the STRICT funnel reports never increase from one step to
\* the next: count_i <= count_{i-1} for every step i >= 2.
StrictCountsNonIncreasing ==
    funnel.status = "strict" =>
        \A i \in 2..Len(funnel.data.Usuarios) :
            funnel.data.Usuarios[i] <= funnel.data.Usuarios[i - 1]

\* a three-step STRICT funnel whose counts fall at every step
StrictCountsFall ==
    /\ funnel.status = "strict"
    /\ funnel.data.Usuarios = <<3, 2, 1>>

\* C2: in the STRICT funnel the first rate is 100.0 and every later rate is
\* 100 * count_i / count_{i-1} rounded to one decimal (the tenth nearest to the
\* quotient), 0.0 when count_{i-1} = 0; counts [3,2] give [100.0, 66.7].
StrictRatesRounded ==
    funnel.status = "strict" =>
        LET counts == funnel.data.Usuarios
            rates  == funnel.data.Taxa
        IN  /\ Len(rates) = Len(counts)
            /\ Len(rates) >= 1 => rates[1] = 1000
            /\ \A i \in 2..Len(rates) :
                  LET off == rates[i] * counts[i - 1] - 1000 * counts[i]
                  IN  IF counts[i - 1] = 0 THEN rates[i] = 0
                      ELSE 2 * off <= counts[i - 1] /\ -2 * off <= counts[i - 1]
            /\ counts = <<3, 2>> => rates = <<1000, 667>>

\* the spec's example: three clients have A, two of them have B
StrictExampleThreeTwo ==
    /\ funnel.status = "strict"
    /\ funnel.data.Usuarios = <<3, 2>>
    /\ funnel.data.Taxa = <<1000, 667>>

Is100(r) == r.den # 0 /\ r.num = 100 * r.den

InZeroHundred(r) == r.den # 0 /\ 0 <= r.num /\ r.num <= 100 * r.den

\* C3 as written: in the UNORDERED funnel every rate lies in [0,100] and
\* exactly one step has rate 100.
UnorderedExactlyOneHundred ==
    funnel.status = "unordered" =>
        /\ \A i \in DOMAIN funnel.data.Taxa : InZeroHundred(funnel.data.Taxa[i])
        /\ Cardinality({i \in DOMAIN funnel.data.Taxa :
                            Is100(funnel.data.Taxa[i])}) = 1

\* C3 amended: in the UNORDERED funnel with a positive maximum count every
\* rate lies in [0,100] and the steps with rate 100 are the steps whose count
\* equals the maximum count: at least one step, and more than one on a tie.
UnorderedHundredAtMaximum ==
    funnel.status = "unordered" =>
        LET counts == funnel.data.Contagem
            rates  == funnel.data.Taxa
        IN  (\E i \in DOMAIN counts : counts[i] > 0) =>
              /\ \A i \in DOMAIN rates : InZeroHundred(rates[i])
              /\ \E i \in DOMAIN rates : Is100(rates[i])
              /\ \A i \in DOMAIN rates :
                    Is100(rates[i]) <=> \A j \in DOMAIN counts :
                                            counts[j] <= counts[i]

\* an UNORDERED funnel with two steps tied at 100 and a third step below
UnorderedTieAtHundred ==
    /\ funnel.status = "unordered"
    /\ \E i, j, k \in DOMAIN funnel.data.Taxa :
          /\ i # j
          /\ Is100(funnel.data.Taxa[i])
          /\ Is100(funnel.data.Taxa[j])
          /\ InZeroHundred(funnel.data.Taxa[k])
          /\ ~Is100(funnel.data.Taxa[k])

(***************************************************************************)
(* Grouping and ordering shared by tabs 1, 2 and 4.                        *)
(***************************************************************************)
\* the plausible slip: the groups are the sessions under both scopes
GroupKeyOfSession(r, by_session) == <<r.client_id, r.session_number>>

\* the columns of sort_values / groupby: ['client_id', 'session_number'] by
\* session, ['client_id'] by user
GroupKey(r, by_session) ==
    IF by_session THEN <<r.client_id, r.session_number>> ELSE <<r.client_id>>

SortKey(r, by_session) ==
    IF by_session
    THEN <<ClientRank(r.client_id), r.session_number, r.event_timestamp>>
    ELSE <<ClientRank(r.client_id), r.event_timestamp>>

\* the plausible slip: a sort that is not stable, here one that turns rows
\* with equal keys round
sort_values_unstable(df, by_session) ==
    LET n == Len(df)
        before(i, j) ==
            \/ LexLess(SortKey(df[i], by_session), SortKey(df[j], by_session))
            \/ /\ SortKey(df[i], by_session) = SortKey(df[j], by_session)
               /\ i > j
        place(i) == Cardinality({j \in 1..n : before(j, i)}) + 1
    IN  [p \in 1..n |-> df[CHOOSE i \in 1..n : place(i) = p]]

\* df.sort_values(groupby_cols + ['event_timestamp']): pandas sorts several
\* columns with a stable lexsort, so rows with equal keys keep their order
sort_values(df, by_session) ==
    LET n == Len(df)
        before(i, j) ==
            \/ LexLess(SortKey(df[i], by_session), SortKey(df[j], by_session))
            \/ /\ SortKey(df[i], by_session) = SortKey(df[j], by_session)
               /\ i < j
        place(i) == Cardinality({j \in 1..n : before(j, i)}) + 1
    IN  [p \in 1..n |-> df[CHOOSE i \in 1..n : place(i) = p]]

\* the keys of df.groupby(groupby_cols) over a sorted df, in key order;
\* groupby leaves out the rows whose client_id is NaN
groupby_keys(sorted_df, by_session) ==
    Dedup([i \in DOMAIN SelectSeq(sorted_df, LAMBDA r : r.client_id # NaN) |->
              GroupKey(SelectSeq(sorted_df, LAMBDA r : r.client_id # NaN)[i],
                       by_session)])

\* group_df['event_name'].tolist() of one group
group_events(sorted_df, key, by_session) ==
    LET rows == SelectSeq(sorted_df, LAMBDA r : GroupKey(r, by_session) = key)
    IN  [i \in DOMAIN rows |-> rows[i].event_name]

(***************************************************************************)
(* Tab 1, "Caminhos de Navegacao Mais Frequentes".                         *)
(***************************************************************************)
PathLengthMin == 2
PathLengthMax == 6
TopPathsMin == 5
TopPathsMax == 30

\* the plausible slip: the windows stop one short of the end of the list
extract_subsequences_short(event_list, length) ==
    [i \in 1..(Len(event_list) - length) |->
        SubSeq(event_list, i, i + length - 1)]

\* [tuple(event_list[i:i+length]) for i in range(len(event_list) - length + 1)]
extract_subsequences(event_list, length) ==
    [i \in 1..(Len(event_list) - length + 1) |->
        SubSeq(event_list, i, i + length - 1)]

\* the plausible slip: the sessions of a client are not told apart
paths_by_client(path_df) ==
    LET sorted_df == sort_values(path_df, FALSE)
        keys == groupby_keys(sorted_df, FALSE)
    IN  [g \in DOMAIN keys |-> group_events(sorted_df, keys[g], FALSE)]

\* paths_by_session: one event list per (client_id, session_number), in time
\* order
paths_by_session(path_df) ==
    LET sorted_df == sort_values(path_df, TRUE)
        keys == groupby_keys(sorted_df, TRUE)
    IN  [g \in DOMAIN keys |-> group_events(sorted_df, keys[g], TRUE)]

\* all_paths: the windows of every list that is long enough, list after list
all_paths_of(path_df, path_length) ==
    LET lists == paths_by_session(path_df)
    IN  Concat([g \in DOMAIN lists |->
                   IF Len(lists[g]) >= path_length
                   THEN extract_subsequences(lists[g], path_length)
                   ELSE <<>>])

Occurrences(seq, x) == Cardinality({i \in DOMAIN seq : seq[i] = x})

\* pd.Series(all_paths).value_counts(): one row per distinct tuple, sorted by
\* descending count.  value_counts sorts the counts with sort_values' default
\* kind, quicksort, which pandas documents as not stable: the order of rows
\* with equal counts depends on the numpy build and on the number of rows.
\* The operator gives every order the sort may return.
RECURSIVE Rankings(_, _)
Rankings(keys, seq) ==
    IF keys = {} THEN {<<>>}
    ELSE LET top == {x \in keys :
                        \A y \in keys : Occurrences(seq, y) <= Occurrences(seq, x)}
         IN  UNION {{<<[Caminho |-> x, Frequencia |-> Occurrences(seq, x)]>> \o rest :
                        rest \in Rankings(keys \ {x}, seq)} : x \in top}

value_counts(seq) == Rankings(Range(seq), seq)

\* df.head(n)
head(df, n) == SubSeq(df, 1, IF n < Len(df) THEN n ELSE Len(df))

\* the values of the sliders the model tries: every path length, and for the
\* number of rows shown the two ends of the slider
TopPathsTried == {TopPathsMin, TopPathsMax}

\* the "exclude events" multiselect of the tab: nothing, or one event
ExcludeChoices(df) == {{}} \cup {{e} : e \in EventNamesOf(df)}

\* one rendering of tab 1
CaminhosDeNavegacao ==
    /\ \E path_length \in PathLengthMin..PathLengthMax,
          top_paths \in TopPathsTried,
          exclude_events \in ExcludeChoices(journey_df) :
        LET path_df == SelectSeq(journey_df,
                                 LAMBDA r : r.event_name \notin exclude_events)
            all_paths == all_paths_of(path_df, path_length)
            inputs == [path_length |-> path_length, top_paths |-> top_paths,
                       exclude_events |-> exclude_events]
        IN  IF path_df = <<>>
            THEN paths' = [status |-> "error", inputs |-> inputs,
                           message |-> "Nao ha dados suficientes para analise apos aplicar os filtros."]
            ELSE IF all_paths = <<>>
            THEN paths' = [status |-> "warning", inputs |-> inputs,
                           message |-> "Nao foram encontrados caminhos com {path_length} eventos consecutivos."]
            ELSE \E path_counts \in value_counts(all_paths) :
                    paths' = [status |-> "ranked", inputs |-> inputs,
                              all_paths |-> all_paths,
                              path_counts |-> path_counts,
                              top_path_counts |-> head(path_counts, top_paths)]
    /\ UNCHANGED <<loader, journey_df, funnel, conversion, flow>>

(***************************************************************************)
(* The tables of the paths' specification: every table of at most          *)
(* MaxPathRows rows over two clients (one with two sessions), two events   *)
(* and two timestamps; the spec's example session A, B, C, alone and       *)
(* followed by rows without client_id; and one long session with six       *)
(* distinct pairs of events.                                               *)
(***************************************************************************)
PathRows ==
    {Row(k[1], k[2], e, t * TickMicros) :
        k \in {<<"u1", 1>>, <<"u1", 2>>, <<"u2", 1>>},
        e \in {"A", "B"}, t \in {0, 1}}

\* events (A,t0), (B,t0+10s), (C,t0+40s) of one session
ExampleSession ==
    << Row("u1", 1, "A", 0), Row("u1", 1, "B", 10 * MicrosPerSecond),
       Row("u1", 1, "C", 40 * MicrosPerSecond) >>

\* one session, one event per tick
SessionOf(names) ==
    [i \in DOMAIN names |-> Row("u1", 1, names[i], i * TickMicros)]

LongSession ==
    SessionOf(<<"A", "B", "A", "B", "C", "C", "B", "B">>)

\* the example session and three rows whose client_id cell is empty
SessionAndMissingClient ==
    ExampleSession \o << Row(NaN, 1, "A", 0), Row(NaN, 1, "B", TickMicros),
                         Row(NaN, 1, "A", 2 * TickMicros) >>

\* the example session and a second client's session of a single event
SessionAndShortSession ==
    ExampleSession \o << Row("u2", 1, "A", 0) >>

PathTables ==
    SeqsUpTo(PathRows, MaxPathRows)
        \cup {ExampleSession, SessionAndMissingClient, SessionAndShortSession,
              LongSession}

InitPaths ==
    /\ journey_df \in PathTables
    /\ funnel = NotRun
    /\ paths = NotRun
    /\ conversion = NotRun
    /\ flow = NotRun
    /\ LoaderIdle

NextPaths ==
    /\ FirstRun
    /\ CaminhosDeNavegacao

SpecPaths == InitPaths /\ [][NextPaths]_vars

(***************************************************************************)
(* Properties of the navigation paths.                                     *)
(***************************************************************************)
\* the (client_id, session_number) groups of the table behind the ranking and
\* the number of rows of each
PathGroupKeys ==
    {<<r.client_id, r.session_number>> :
        r \in {x \in Range(journey_df) :
                  /\ x.client_id # NaN
                  /\ x.event_name \notin paths.inputs.exclude_events}}

PathGroupSize(k) ==
    Cardinality({i \in DOMAIN journey_df :
                    /\ journey_df[i].client_id = k[1]
                    /\ journey_df[i].session_number = k[2]
                    /\ journey_df[i].event_name \notin paths.inputs.exclude_events})

WindowsOf(k) ==
    IF PathGroupSize(k) - paths.inputs.path_length + 1 > 0
    THEN PathGroupSize(k) - paths.inputs.path_length + 1 ELSE 0

RECURSIVE SumWindows(_)
SumWindows(S) ==
    IF S = {} THEN 0
    ELSE LET k == CHOOSE x \in S : TRUE
         IN  WindowsOf(k) + SumWindows(S \ {k})

\* C5: the frequencies of the distinct n-grams counted by the path extractor
\* add up to the sum over all (actor, session) groups of max(0, |group| - L + 1);
\* when that sum is 0 there is no frequency table.
PathFrequenciesSum ==
    /\ paths.status = "ranked" =>
          /\ SumSeq([i \in DOMAIN paths.path_counts |->
                        paths.path_counts[i].Frequencia])
                = SumWindows(PathGroupKeys)
          /\ \A i, j \in DOMAIN paths.path_counts :
                i # j => paths.path_counts[i].Caminho # paths.path_counts[j].Caminho
    /\ paths.status \in {"warning", "error"} =>
          SumWindows(PathGroupKeys) = 0

\* a ranking over two groups of which one is shorter than L and one yields
\* more than one window
PathsFromTwoGroups ==
    /\ paths.status = "ranked"
    /\ \E k1, k2 \in PathGroupKeys :
          /\ PathGroupSize(k1) < paths.inputs.path_length
          /\ WindowsOf(k2) >= 2

\* C6 as written: the frequency table is in descending frequency, n-grams of
\* equal frequency stand in the order of their first emission, and the list
\* shown is the first min(top-K, distinct n-grams) rows of the table.
FirstEmitted(x) ==
    CHOOSE i \in DOMAIN paths.all_paths :
        /\ paths.all_paths[i] = x
        /\ \A j \in 1..(i - 1) : paths.all_paths[j] # x

PathRankingFirstSeen ==
    paths.status = "ranked" =>
        LET table == paths.path_counts
            shown == paths.top_path_counts
            n     == Cardinality(Range(paths.all_paths))
            k     == paths.inputs.top_paths
        IN  /\ Len(table) = n
            /\ \A i \in 1..(Len(table) - 1) :
                  \/ table[i].Frequencia > table[i + 1].Frequencia
                  \/ /\ table[i].Frequencia = table[i + 1].Frequencia
                     /\ FirstEmitted(table[i].Caminho)
                            < FirstEmitted(table[i + 1].Caminho)
            /\ Len(shown) = (IF k < n THEN k ELSE n)
            /\ \A i \in DOMAIN shown : shown[i] = table[i]

(***************************************************************************)
(* Tab 2, "Tempo de Conversao entre Eventos".                              *)
(***************************************************************************)
MaxTimeMin == 1
SecondsPerMinute == 60

\* the ids of a set of (client_id, session_number) keys in groupby's order
ordered_keys(keys) ==
    LET rank(k) == <<ClientRank(k[1]), k[2]>>
        place(k) == Cardinality({h \in keys : LexLess(rank(h), rank(k))}) + 1
    IN  [p \in 1..Cardinality(keys) |-> CHOOSE k \in keys : place(k) = p]

\* valid_sessions: the (client_id, session_number) groups of the rows of the
\* two events that hold both of them
valid_sessions(df, start_event, end_event) ==
    {k \in {<<df[i].client_id, df[i].session_number>> :
                i \in {j \in DOMAIN df : df[j].client_id # NaN}} :
        {start_event, end_event} \subseteq
            {df[i].event_name :
                i \in {j \in DOMAIN df :
                          /\ <<df[j].client_id, df[j].session_number>> = k
                          /\ df[j].event_name \in {start_event, end_event}}}}

\* the plausible slip: the last occurrence is taken instead of the first
last_timestamp(group, event) ==
    MaxOf({group[i].event_timestamp :
              i \in {j \in DOMAIN group : group[j].event_name = event}})

\* group[group['event_name'] == event]['event_timestamp'].min()
first_timestamp(group, event) ==
    LET ts == {group[i].event_timestamp :
                  i \in {j \in DOMAIN group : group[j].event_name = event}}
    IN  CHOOSE t \in ts : \A u \in ts : t <= u

\* bool(x) of a cell of a text column: only the empty string is false; NaN,
\* a float that is not zero, is true
truthy(x) == x # ""

\* str(x) inside an f-string: NaN prints as "nan"
format_cell(x) == IF x = NaN THEN "nan" ELSE x

NaoDefinido == "Nao definido"

\* f"{source}/{medium}" if source and medium else "Nao definido"; the label
\* source/medium is kept as the pair of its two printed parts
source_medium_label(source, medium) ==
    IF truthy(source) /\ truthy(medium)
    THEN <<format_cell(source), format_cell(medium)>>
    ELSE NaoDefinido

\* the plausible slip: the end is the first end event after the start, not
\* the first end event of the group
conversion_record_next_end(group, key, start_event, end_event, max_time) ==
    LET start_time == first_timestamp(group, start_event)
        later == {group[i].event_timestamp :
                     i \in {j \in DOMAIN group :
                               /\ group[j].event_name = end_event
                               /\ group[j].event_timestamp > start_time}}
    IN  IF /\ later # {}
           /\ MinOf(later) - start_time
                  <= max_time * SecondsPerMinute * MicrosPerSecond
        THEN << [client_id |-> key[1], session_number |-> key[2],
                 time_diff_seconds |-> [num |-> MinOf(later) - start_time,
                                        den |-> MicrosPerSecond],
                 is_logged_in |-> \E i \in DOMAIN group : group[i].is_logged_in,
                 source |-> group[1].session_source,
                 medium |-> group[1].session_medium,
                 source_medium |->
                     source_medium_label(group[1].session_source,
                                         group[1].session_medium)] >>
        ELSE <<>>

\* the body of the loop over conversion_data.groupby(...): the records of one
\* group, none or one.  time_diff_seconds = (end - start) / 1000000 is kept as
\* the fraction num/den.
conversion_record(group, key, start_event, end_event, max_time) ==
    LET start_time == first_timestamp(group, start_event)
        end_time   == first_timestamp(group, end_event)
        source     == group[1].session_source
        medium     == group[1].session_medium
    IN  IF /\ end_time > start_time
           /\ end_time - start_time
                  <= max_time * SecondsPerMinute * MicrosPerSecond
        THEN << [client_id |-> key[1], session_number |-> key[2],
                 time_diff_seconds |-> [num |-> end_time - start_time,
                                        den |-> MicrosPerSecond],
                 is_logged_in |-> \E i \in DOMAIN group : group[i].is_logged_in,
                 source |-> source,
                 medium |-> medium,
                 source_medium |-> source_medium_label(source, medium)] >>
        ELSE <<>>

conversion_times(df, start_event, end_event, max_time) ==
    LET valid == valid_sessions(df, start_event, end_event)
        conversion_data ==
            SelectSeq(df, LAMBDA r :
                /\ r.event_name \in {start_event, end_event}
                /\ <<r.client_id, r.session_number>> \in valid)
        keys == ordered_keys(valid)
    IN  Concat([g \in DOMAIN keys |->
                   conversion_record(
                       SelectSeq(conversion_data, LAMBDA r :
                           <<r.client_id, r.session_number>> = keys[g]),
                       keys[g], start_event, end_event, max_time)])

\* the plausible slip: the second selectbox offers the start event too
end_events_unfiltered(available, start_event) == available

\* end_events = [e for e in available_events if e != start_event]
end_events(available, start_event) == available \ {start_event}

\* "Analisar Tempos de Conversao"
AnalisarTemposDeConversao ==
    /\ Cardinality(available_events(journey_df)) >= 2
    /\ \E start_event \in available_events(journey_df),
          max_time \in MaxTimeMin..MaxMinutesTried :
        \E end_event \in end_events(available_events(journey_df), start_event) :
            LET inputs == [start_event |-> start_event, end_event |-> end_event,
                           max_time |-> max_time]
                times == conversion_times(journey_df, start_event, end_event,
                                          max_time)
            IN  conversion' =
                    [status |->
                        IF valid_sessions(journey_df, start_event, end_event) = {}
                        THEN "no_sessions"
                        ELSE IF times = <<>> THEN "no_conversions" ELSE "times",
                     inputs |-> inputs,
                     times_df |-> times,
                     message |->
                        IF valid_sessions(journey_df, start_event, end_event) = {}
                        THEN "Nao foram encontradas sessoes que contenham ambos eventos: {start_event} e {end_event}."
                        ELSE IF times = <<>>
                        THEN "Nao foram encontradas conversoes de {start_event} para {end_event} dentro do limite de tempo de {max_time} minutos."
                        ELSE ""]
    /\ UNCHANGED <<loader, journey_df, funnel, paths, flow>>

\* tab 2 with fewer than two events in the table: an error, no analysis
ConversaoSemEventos ==
    /\ Cardinality(available_events(journey_df)) < 2
    /\ conversion' = [status |-> "error",
                      message |-> "Nao ha eventos suficientes para analise. Selecione pelo menos dois eventos diferentes."]
    /\ UNCHANGED <<loader, journey_df, funnel, paths, flow>>

(***************************************************************************)
(* The tables of the conversion times: every table of at most              *)
(* MaxConversionRows rows over one client with two sessions, a missing     *)
(* client, two events and three timestamps one minute apart; and the       *)
(* spec's example session.                                                 *)
(***************************************************************************)
ConversionRows ==
    {Row(k[1], k[2], e, t * TickMicros) :
        k \in {<<"u1", 1>>, <<"u1", 2>>, <<NaN, 1>>},
        e \in {"A", "B"}, t \in {0, 1, 2}}

\* one session of three events a minute apart, in every order, where the
\* visitor may be logged in at each event and the source and the medium of
\* the first two rows may be absent
SessionWithAttributes ==
    {[i \in 1..3 |->
         RowOf("u1", 1, names[i], (i - 1) * TickMicros, logged[i],
               IF i = 1 THEN first_source
               ELSE IF i = 2 THEN second_source ELSE "google",
               IF i = 3 THEN "organic" ELSE medium)] :
        names \in Orderings({"X", "A", "B"}, 3, 3),
        logged \in [1..3 -> BOOLEAN],
        first_source \in {"google", NaN},
        second_source \in {"bing", NaN},
        medium \in {"cpc", NaN}}

ConversionTables ==
    SeqsUpTo(ConversionRows, MaxConversionRows)
        \cup {ExampleSession} \cup SessionWithAttributes

InitConversion ==
    /\ journey_df \in ConversionTables
    /\ funnel = NotRun
    /\ paths = NotRun
    /\ conversion = NotRun
    /\ flow = NotRun
    /\ LoaderIdle

NextConversion ==
    /\ FirstRun
    /\ (AnalisarTemposDeConversao \/ ConversaoSemEventos)

SpecConversion == InitConversion /\ [][NextConversion]_vars

(***************************************************************************)
(* Properties of the conversion times.                                     *)
(***************************************************************************)
ConversionAnalysed == conversion.status \in {"times", "no_conversions", "no_sessions"}

\* the timestamps of an event in a (client, session) group of the table
TimesOf(k, e) ==
    {journey_df[i].event_timestamp :
        i \in {j \in DOMAIN journey_df :
                  /\ journey_df[j].client_id = k[1]
                  /\ journey_df[j].session_number = k[2]
                  /\ journey_df[j].event_name = e}}

Earliest(k, e) == CHOOSE t \in TimesOf(k, e) : \A u \in TimesOf(k, e) : t <= u

\* the groups that contain both events
GroupsWithBoth ==
    {k \in {<<r.client_id, r.session_number>> :
                r \in {x \in Range(journey_df) : x.client_id # NaN}} :
        /\ TimesOf(k, conversion.inputs.start_event) # {}
        /\ TimesOf(k, conversion.inputs.end_event) # {}}

RecordsOf(k) ==
    {i \in DOMAIN conversion.times_df :
        /\ conversion.times_df[i].client_id = k[1]
        /\ conversion.times_df[i].session_number = k[2]}

\* C7: a group that contains both events has a record if and only if
\* end_t > start_t and end_t - start_t <= T*60 seconds, with start_t and end_t
\* the earliest timestamps of the two events in the group; the record's
\* elapsed seconds are end_t - start_t; A at t0, C at t0+40s and T = 1 minute
\* give one record of 40 s.
ConversionRecordIffInWindow ==
    ConversionAnalysed =>
        LET start_t(k) == Earliest(k, conversion.inputs.start_event)
            end_t(k)   == Earliest(k, conversion.inputs.end_event)
            window     == conversion.inputs.max_time * 60 * 1000000
        IN  /\ \A k \in GroupsWithBoth :
                  /\ RecordsOf(k) # {} <=>
                        /\ end_t(k) > start_t(k)
                        /\ end_t(k) - start_t(k) <= window
                  /\ Cardinality(RecordsOf(k)) <= 1
                  /\ \A i \in RecordsOf(k) :
                        conversion.times_df[i].time_diff_seconds
                            = [num |-> end_t(k) - start_t(k), den |-> 1000000]
            /\ \A i \in DOMAIN conversion.times_df :
                  <<conversion.times_df[i].client_id,
                    conversion.times_df[i].session_number>> \in GroupsWithBoth
            /\ (/\ journey_df = ExampleSession
                /\ conversion.inputs.start_event = "A"
                /\ conversion.inputs.end_event = "C"
                /\ conversion.inputs.max_time = 1)
                  => /\ Len(conversion.times_df) = 1
                     /\ conversion.times_df[1].time_diff_seconds
                            = [num |-> 40 * 1000000, den |-> 1000000]

\* the spec's example: A at t0, C 40 s later, a window of one minute
ConversionExampleForty ==
    /\ journey_df = ExampleSession
    /\ conversion.status = "times"
    /\ conversion.inputs = [start_event |-> "A", end_event |-> "C", max_time |-> 1]
    /\ Len(conversion.times_df) = 1

(***************************************************************************)
(* Tab 4, "Fluxo entre Eventos".                                           *)
(***************************************************************************)
MinOccurrencesMin == 1

\* event_counts = journey_df['event_name'].value_counts()
event_count(df, e) == Cardinality({i \in DOMAIN df : df[i].event_name = e})

\* the plausible slip: every event of the table becomes a node
events_to_include_all(df, min_occurrences) == EventNamesOf(df)

\* events_to_include = event_counts[event_counts >= min_occurrences].index
events_to_include(df, min_occurrences) ==
    {e \in EventNamesOf(df) : event_count(df, e) >= min_occurrences}

\* the plausible slip: the rows of the rare events stay in the sequences
isin_any(df, events) == df

\* journey_df[journey_df['event_name'].isin(events_to_include)]
isin(df, events) == SelectSeq(df, LAMBDA r : r.event_name \in events)

\* the plausible slip: the pairs are taken over the whole sorted table, so the
\* last event of a group is paired with the first event of the next
transitions_across_groups(flow_df, by_session) ==
    LET rows == SelectSeq(sort_values(flow_df, by_session),
                          LAMBDA r : r.client_id # NaN)
    IN  [i \in 1..(Len(rows) - 1) |->
            [edge |-> <<rows[i].event_name, rows[i + 1].event_name>>,
             client_id |-> rows[i].client_id]]

\* the loop over flow_df.groupby(groupby_cols): every pair of consecutive
\* events of every group, with the group's client_id
transitions(flow_df, by_session) ==
    LET sorted_df == sort_values(flow_df, by_session)
        keys == groupby_keys(sorted_df, by_session)
    IN  Concat([g \in DOMAIN keys |->
                   LET events == group_events(sorted_df, keys[g], by_session)
                   IN  [i \in 1..(Len(events) - 1) |->
                           [edge |-> <<events[i], events[i + 1]>>,
                            client_id |-> keys[g][1]]]])

\* edge_counts and user_sets after the loop
edge_counts_of(trans) ==
    [e \in {trans[i].edge : i \in DOMAIN trans} |->
        Cardinality({i \in DOMAIN trans : trans[i].edge = e})]

\* the plausible slip: the set of an edge is replaced, not extended, so it
\* holds the last client only
user_sets_last_only(trans) ==
    [e \in {trans[i].edge : i \in DOMAIN trans} |->
        LET last == CHOOSE i \in DOMAIN trans :
                        /\ trans[i].edge = e
                        /\ \A j \in DOMAIN trans : trans[j].edge = e => j <= i
        IN  {trans[last].client_id}]

\* user_sets: the client_id of every group that added to the edge; the key of
\* a group is a tuple (pandas 2), so group_key[0] is the client_id under both
\* scopes
user_sets_of(trans) ==
    [e \in {trans[i].edge : i \in DOMAIN trans} |->
        {trans[i].client_id : i \in {j \in DOMAIN trans : trans[j].edge = e}}]

\* the plausible slip: an edge needs more than min_occurrences transitions
edge_kept_strict(count, min_occurrences) == count > min_occurrences

\* if count >= min_occurrences: G.add_edge(...)
edge_kept(count, min_occurrences) == count >= min_occurrences

\* the edges of G
graph_edges(edge_counts, min_occurrences) ==
    {e \in DOMAIN edge_counts : edge_kept(edge_counts[e], min_occurrences)}

RECURSIVE SumWeights(_, _)
SumWeights(E, edge_counts) ==
    IF E = {} THEN 0
    ELSE LET e == CHOOSE x \in E : TRUE
         IN  edge_counts[e] + SumWeights(E \ {e}, edge_counts)

\* the plausible slip: the degree counts the edges and leaves their weights
in_degree_unweighted(nodes, E, edge_counts) ==
    [n \in nodes |-> Cardinality({e \in E : e[2] = n})]

\* dict(G.in_degree(weight='weight')), dict(G.out_degree(weight='weight'))
in_degree_of(nodes, E, edge_counts) ==
    [n \in nodes |-> SumWeights({e \in E : e[2] = n}, edge_counts)]

out_degree_of(nodes, E, edge_counts) ==
    [n \in nodes |-> SumWeights({e \in E : e[1] = n}, edge_counts)]

\* a centrality is a float in the code; it is kept as the exact fraction
\* num/den in lowest terms
RECURSIVE GCD(_, _)
GCD(a, b) == IF b = 0 THEN a ELSE GCD(b, a % b)

Fraction(n, d) ==
    IF n = 0 THEN [num |-> 0, den |-> 1]
    ELSE [num |-> n \div GCD(n, d), den |-> d \div GCD(n, d)]

FractionAdd(x, y) == Fraction(x.num * y.den + y.num * x.den, x.den * y.den)

FractionMul(x, y) == Fraction(x.num * y.num, x.den * y.den)

RECURSIVE FractionSum(_)
FractionSum(fs) ==
    IF fs = <<>> THEN Fraction(0, 1)
    ELSE FractionAdd(Head(fs), FractionSum(Tail(fs)))

\* a set as a sequence, in some order
RECURSIVE SeqOfSet(_)
SeqOfSet(S) ==
    IF S = {} THEN <<>>
    ELSE LET x == CHOOSE y \in S : TRUE IN <<x>> \o SeqOfSet(S \ {x})

\* one round of relaxation of the distances D from a source: D maps the
\* nodes reached so far to the length of the shortest path found
relax(D, E, weight) ==
    LET reached == DOMAIN D
        into(t) == {e \in E : e[1] \in reached /\ e[2] = t}
        found   == reached \cup {e[2] : e \in {x \in E : x[1] \in reached}}
    IN  [t \in found |->
            MinOf({D[e[1]] + weight[e] : e \in into(t)}
                      \cup (IF t \in reached THEN {D[t]} ELSE {}))]

RECURSIVE relax_rounds(_, _, _, _)
relax_rounds(D, E, weight, rounds) ==
    IF rounds = 0 THEN D
    ELSE relax_rounds(relax(D, E, weight), E, weight, rounds - 1)

\* the Dijkstra distances from s over the edges E with their weights as
\* lengths: a function on the nodes that can be reached from s
shortest_distances(nodes, E, weight, s) ==
    relax_rounds([t \in {s} |-> 0], E, weight, Cardinality(nodes))

\* P[w]: the nodes before w on a shortest path from the source of D
predecessors(D, E, weight, w) ==
    {e[1] : e \in {x \in E : /\ x[2] = w
                               /\ x[1] \in DOMAIN D
                               /\ D[x[1]] + weight[x] = D[w]}}

\* sigma[w]: the number of shortest paths from s to w
RECURSIVE sigma(_, _, _, _, _)
sigma(D, E, weight, s, w) ==
    IF w = s THEN 1
    ELSE SumSeq([i \in DOMAIN SeqOfSet(predecessors(D, E, weight, w)) |->
                    sigma(D, E, weight, s,
                          SeqOfSet(predecessors(D, E, weight, w))[i])])

\* delta[v]: the dependency of the source s on v, accumulated from the
\* farthest node back: sigma[v] / sigma[w] * (1 + delta[w]) over the nodes w
\* that have v as a predecessor
RECURSIVE delta(_, _, _, _, _)
delta(D, E, weight, s, v) ==
    LET after == SeqOfSet({w \in DOMAIN D :
                              v \in predecessors(D, E, weight, w)})
    IN  FractionSum([i \in DOMAIN after |->
            FractionMul(Fraction(sigma(D, E, weight, s, v),
                                 sigma(D, E, weight, s, after[i])),
                        FractionAdd(Fraction(1, 1),
                                    delta(D, E, weight, s, after[i])))])

\* nx.betweenness_centrality(G, weight=...), normalized (the default) and
\* without endpoints (the default): the dependencies of all other sources on
\* v, times 1 / ((n - 1) * (n - 2)) in a directed graph of more than two nodes
nx_betweenness_centrality(nodes, E, weight) ==
    LET n == Cardinality(nodes)
        betweenness(v) ==
            LET sources == SeqOfSet({s \in nodes \ {v} :
                               v \in DOMAIN shortest_distances(nodes, E, weight, s)})
            IN  FractionSum([i \in DOMAIN sources |->
                    delta(shortest_distances(nodes, E, weight, sources[i]),
                          E, weight, sources[i], v)])
    IN  [v \in nodes |->
            IF n <= 2 THEN betweenness(v)
            ELSE FractionMul(betweenness(v), Fraction(1, (n - 1) * (n - 2)))]

\* the plausible slip: weight='weight' is left out, every edge has length 1
centrality_by_hops(nodes, E, edge_counts) ==
    nx_betweenness_centrality(nodes, E, [e \in E |-> 1])

\* centrality = nx.betweenness_centrality(G, weight='weight')
centrality_of(nodes, E, edge_counts) ==
    nx_betweenness_centrality(nodes, E, [e \in E |-> edge_counts[e]])

\* the plausible slip: the rate is not cut at zero
dropoff_pct_signed(in_flow, out_flow) ==
    IF in_flow >= out_flow
    THEN RoundHalfEven(1000 * (in_flow - out_flow), in_flow)
    ELSE 0 - RoundHalfEven(1000 * (out_flow - in_flow), in_flow)

\* round(max(0, (in_flow - out_flow) / in_flow) * 100, 1), in tenths of a
\* percent
dropoff_pct(in_flow, out_flow) ==
    IF in_flow > out_flow
    THEN RoundHalfEven(1000 * (in_flow - out_flow), in_flow)
    ELSE 0

\* dropoff_data: one row per node with in_flow > 0
dropoff_rows(nodes, in_degree, out_degree) ==
    {[Evento |-> n, Entrada |-> in_degree[n], Saida |-> out_degree[n],
      Taxa |-> dropoff_pct(in_degree[n], out_degree[n])] :
        n \in {x \in nodes : in_degree[x] > 0}}

\* dropoff_df.sort_values('Taxa de Drop-off (%)', ascending=False): the rows by
\* descending rate; the sort is quicksort, so rows of equal rate come in any
\* order
RECURSIVE sort_by_rate(_)
sort_by_rate(rows) ==
    IF rows = {} THEN {<<>>}
    ELSE LET top == {x \in rows : \A y \in rows : y.Taxa <= x.Taxa}
         IN  UNION {{<<x>> \o rest : rest \in sort_by_rate(rows \ {x})} :
                       x \in top}

\* the plausible slip: the rows are filtered and sorted where they stand
table_sorted_in_place(df, sorted_flow_df) == sorted_flow_df

\* flow_df is a .copy() of the filtered rows (line 1898) and sort_values
\* returns a new frame (line 1907): the table of the tabs keeps its rows
table_after_copy(df, sorted_flow_df) == df

\* "Analisar Fluxo de Eventos".  Each \E over a one-member set names a local
\* variable of the handler.
AnalisarFluxoDeEventos ==
    /\ \E min_occurrences \in MinOccurrencesMin..MaxOccurrencesTried,
          by_session \in BOOLEAN :
       \E nodes \in {events_to_include(journey_df, min_occurrences)} :
       \E flow_df \in {isin(journey_df, nodes)} :
       \E trans \in {transitions(flow_df, by_session)} :
       \E edge_counts \in {edge_counts_of(trans)} :
       \E E \in {graph_edges(edge_counts, min_occurrences)} :
       \E in_degree \in {in_degree_of(nodes, E, edge_counts)},
          out_degree \in {out_degree_of(nodes, E, edge_counts)},
          inputs \in {[min_occurrences |-> min_occurrences,
                       by_session |-> by_session]} :
         /\ journey_df' =
                IF Cardinality(nodes) < 2 THEN journey_df
                ELSE table_after_copy(journey_df,
                                      sort_values(flow_df, by_session))
         /\ IF Cardinality(nodes) < 2
            THEN flow' = [status |-> "few_events", inputs |-> inputs,
                          message |-> "Nao ha eventos suficientes com pelo menos {min_occurrences} ocorrencias. Tente reduzir o valor minimo."]
            ELSE IF E = {}
            THEN flow' = [status |-> "no_edges", inputs |-> inputs,
                          nodes |-> nodes, edge_counts |-> edge_counts,
                          message |-> "Nao foram encontradas transicoes suficientes para analise. Tente reduzir o minimo de ocorrencias."]
            ELSE \E dropoff_df \in
                        sort_by_rate(dropoff_rows(nodes, in_degree, out_degree)) :
                    flow' = [status |-> "graph", inputs |-> inputs,
                             nodes |-> nodes,
                             edge_counts |-> edge_counts,
                             edges |-> {[source |-> e[1], target |-> e[2],
                                         weight |-> edge_counts[e],
                                         users |-> user_sets_of(trans)[e]] :
                                           e \in E},
                             centrality |->
                                 centrality_of(nodes, E, edge_counts),
                             in_degree |-> in_degree,
                             out_degree |-> out_degree,
                             dropoff_df |-> dropoff_df]
    /\ UNCHANGED <<loader, funnel, paths, conversion>>

(***************************************************************************)
(* The tables of the flow graph: every table of at most MaxFlowRows rows   *)
(* over two clients (one with two sessions), a missing client, two events  *)
(* and two timestamps; and five larger tables.                             *)
(***************************************************************************)
FlowRows ==
    {Row(k[1], k[2], e, t * TickMicros) :
        k \in {<<"u1", 1>>, <<"u1", 2>>, <<"u2", 1>>, <<NaN, 1>>},
        e \in {"A", "B"}, t \in {0, 1}}

\* one session of a client, one event per tick
ClientSession(c, s, names) ==
    [i \in DOMAIN names |-> Row(c, s, names[i], i * TickMicros)]

\* the spec's example: A -> B three times, A -> C once, C seen twice
FlowExample ==
    ClientSession("u1", 1, <<"A", "B">>) \o ClientSession("u1", 2, <<"A", "B">>)
        \o ClientSession("u2", 1, <<"A", "B">>)
        \o ClientSession("u2", 2, <<"A", "C">>)
        \o ClientSession("u3", 1, <<"C">>)

\* A -> B three times and B -> A once: B takes in 3 and gives out 1
FlowBackEdge ==
    ClientSession("u1", 1, <<"A", "B", "A">>)
        \o ClientSession("u1", 2, <<"A", "B">>)
        \o ClientSession("u2", 1, <<"A", "B">>)

\* C is seen once, between A and B
FlowRareEvent ==
    ClientSession("u1", 1, <<"A", "C", "B">>)
        \o ClientSession("u2", 1, <<"A", "B">>)

\* A -> C three times and once A -> B -> C: the way over B is the shorter
FlowDetour ==
    ClientSession("u1", 1, <<"A", "B", "C">>)
        \o ClientSession("u1", 2, <<"A", "C">>)
        \o ClientSession("u2", 1, <<"A", "C">>)
        \o ClientSession("u2", 2, <<"A", "C">>)

\* A -> B -> D and A -> C -> D once each: two shortest ways from A to D
FlowDiamond ==
    ClientSession("u1", 1, <<"A", "B", "D">>)
        \o ClientSession("u2", 1, <<"A", "C", "D">>)

FlowTables ==
    SeqsUpTo(FlowRows, MaxFlowRows)
        \cup {FlowExample, FlowBackEdge, FlowRareEvent, FlowDetour,
              FlowDiamond}

InitFlow ==
    /\ journey_df \in FlowTables
    /\ funnel = NotRun
    /\ paths = NotRun
    /\ conversion = NotRun
    /\ flow = NotRun
    /\ LoaderIdle

NextFlow ==
    /\ FirstRun
    /\ AnalisarFluxoDeEventos

SpecFlow == InitFlow /\ [][NextFlow]_vars

(***************************************************************************)
(* Properties of the flow graph.                                           *)
(***************************************************************************)
\* the groups of the scope over the rows whose event passed the threshold, and
\* the number of adjacent pairs of each
FlowGroupKeys ==
    {GroupKey(r, flow.inputs.by_session) :
        r \in {x \in Range(journey_df) :
                  x.client_id # NaN /\ x.event_name \in flow.nodes}}

FlowGroupSize(k) ==
    Cardinality({i \in DOMAIN journey_df :
                    /\ GroupKey(journey_df[i], flow.inputs.by_session) = k
                    /\ journey_df[i].event_name \in flow.nodes})

RECURSIVE SumAdjacentPairs(_)
SumAdjacentPairs(K) ==
    IF K = {} THEN 0
    ELSE LET k == CHOOSE x \in K : TRUE
         IN  (FlowGroupSize(k) - 1) + SumAdjacentPairs(K \ {k})

RECURSIVE SumEdgeWeights(_)
SumEdgeWeights(E) ==
    IF E = {} THEN 0
    ELSE LET e == CHOOSE x \in E : TRUE
         IN  e.weight + SumEdgeWeights(E \ {e})

\* the accumulated counts of the pairs that stay below the threshold
DroppedWeight ==
    SumWeights({e \in DOMAIN flow.edge_counts :
                   flow.edge_counts[e] < flow.inputs.min_occurrences},
               flow.edge_counts)

\* C8 as written: the weights of the edges of the output graph add up to the
\* number of adjacent event pairs of all scope groups after the events below
\* the threshold are removed.
FlowWeightsSumAllPairs ==
    flow.status = "graph" =>
        SumEdgeWeights(flow.edges) = SumAdjacentPairs(FlowGroupKeys)

\* C8 amended: the accumulated counts of all pairs add up to the number of
\* adjacent event pairs of all scope groups after node filtering, and the
\* weights of the output edges add up to that number less the counts of the
\* pairs seen fewer than m times.
FlowWeightsSumKeptPairs ==
    flow.status \in {"graph", "no_edges"} =>
        /\ SumWeights(DOMAIN flow.edge_counts, flow.edge_counts)
              = SumAdjacentPairs(FlowGroupKeys)
        /\ flow.status = "graph" =>
              SumEdgeWeights(flow.edges)
                  = SumAdjacentPairs(FlowGroupKeys) - DroppedWeight

\* a graph that keeps an edge and loses another to the threshold
FlowEdgeDropped ==
    /\ flow.status = "graph"
    /\ DroppedWeight > 0
    /\ Cardinality(FlowGroupKeys) >= 2

\* C9: every edge of the output graph has weight >= m, every pair seen at
\* least m times is an edge of it with its count as weight, and with m = 2,
\* A -> B seen 3 times and A -> C once (in sessions of two events each) only
\* A -> B is left.
FlowEdgesMeetThreshold ==
    flow.status = "graph" =>
        /\ \A e \in flow.edges :
              /\ e.weight >= flow.inputs.min_occurrences
              /\ <<e.source, e.target>> \in DOMAIN flow.edge_counts
              /\ e.weight = flow.edge_counts[<<e.source, e.target>>]
        /\ \A p \in DOMAIN flow.edge_counts :
              flow.edge_counts[p] >= flow.inputs.min_occurrences
                  => \E e \in flow.edges : <<e.source, e.target>> = p
        /\ (/\ journey_df = FlowExample
            /\ flow.inputs = [min_occurrences |-> 2, by_session |-> TRUE])
              => {<<e.source, e.target, e.weight>> : e \in flow.edges}
                    = {<<"A", "B", 3>>}

\* the spec's example at m = 2
FlowExampleOnlyAB ==
    /\ journey_df = FlowExample
    /\ flow.status = "graph"
    /\ flow.inputs = [min_occurrences |-> 2, by_session |-> TRUE]
    /\ flow.edge_counts[<<"A", "C">>] = 1
    /\ {<<e.source, e.target>> : e \in flow.edges} = {<<"A", "B">>}

Positive(n) == IF n > 0 THEN n ELSE 0

DropoffRowsAndOrder ==
    /\ {flow.dropoff_df[i].Evento : i \in DOMAIN flow.dropoff_df}
          = {n \in flow.nodes : flow.in_degree[n] > 0}
    /\ \A i, j \in DOMAIN flow.dropoff_df :
          i # j => flow.dropoff_df[i].Evento # flow.dropoff_df[j].Evento
    /\ \A i \in DOMAIN flow.dropoff_df :
          /\ flow.dropoff_df[i].Entrada = flow.in_degree[flow.dropoff_df[i].Evento]
          /\ flow.dropoff_df[i].Saida = flow.out_degree[flow.dropoff_df[i].Evento]
          /\ flow.dropoff_df[i].Taxa >= 0
          /\ flow.dropoff_df[i].Taxa <= 1000
    /\ \A i \in 1..(Len(flow.dropoff_df) - 1) :
          flow.dropoff_df[i].Taxa >= flow.dropoff_df[i + 1].Taxa

\* C10 as written: the drop-off table has a row exactly for the nodes with
\* weighted in-degree > 0, each rate is max(0, (in - out) / in) as a
\* percentage, in [0,100], and the rows are in descending rate.
DropoffRateExact ==
    flow.status = "graph" =>
        /\ DropoffRowsAndOrder
        /\ \A i \in DOMAIN flow.dropoff_df :
              LET row == flow.dropoff_df[i]
              IN  row.Taxa * row.Entrada
                      = 1000 * Positive(row.Entrada - row.Saida)

\* C10 amended: the same, with each rate the percentage
\* 100 * max(0, (in - out) / in) rounded to one decimal.
DropoffRateRounded ==
    flow.status = "graph" =>
        /\ DropoffRowsAndOrder
        /\ \A i \in DOMAIN flow.dropoff_df :
              LET row == flow.dropoff_df[i]
                  off == row.Taxa * row.Entrada
                             - 1000 * Positive(row.Entrada - row.Saida)
              IN  2 * off <= row.Entrada /\ -2 * off <= row.Entrada

\* a drop-off table with a rate that needed rounding (in 3, out 1: 66.7) and a
\* rate cut at zero (out above in)
DropoffRoundedAndCut ==
    /\ flow.status = "graph"
    /\ \E i, j \in DOMAIN flow.dropoff_df :
          /\ flow.dropoff_df[i].Entrada = 3
          /\ flow.dropoff_df[i].Saida = 1
          /\ flow.dropoff_df[i].Taxa = 667
          /\ flow.dropoff_df[j].Saida > flow.dropoff_df[j].Entrada
          /\ flow.dropoff_df[j].Taxa = 0

\* C4: no rate computation gives an undefined value on a zero denominator: the
\* STRICT rate after a count of 0 is 0.0, the UNORDERED rates over a maximum
\* count of 0 are 0.0, and a node with in-degree 0 has no drop-off row.
ZeroDenominatorGivesZero ==
    /\ funnel.status = "strict" =>
          \A i \in 2..Len(funnel.data.Taxa) :
              funnel.data.Usuarios[i - 1] = 0 => funnel.data.Taxa[i] = 0
    /\ funnel.status = "unordered" =>
          \A i \in DOMAIN funnel.data.Taxa :
              /\ funnel.data.Taxa[i].den # 0
              /\ funnel.data.max_count = 0 => funnel.data.Taxa[i].num = 0
    /\ flow.status = "graph" =>
          \A i \in DOMAIN flow.dropoff_df : flow.dropoff_df[i].Entrada > 0

(***************************************************************************)
(* load_data: the CSV file, its validation and its enrichment.             *)
(*                                                                         *)
(* A file is the set of its column names and its rows as pd.read_csv reads *)
(* them.  A cell of session_number or event_timestamp is a number (whole,  *)
(* or a whole and a half, such as 1.5), empty (NaN) or text that is no     *)
(* number.  The files of the model hold whole timestamps, below 2^31       *)
(* microseconds.  fills tells the pandas in use: groupby(...).transform on *)
(* rows whose group key is NaN gives NaN there from pandas 1.5 on and      *)
(* raises a length mismatch before.                                        *)
(***************************************************************************)
MaxLoadRows == 2        \* longest table of the exhaustive family of files
MaxMissingColumns == 1  \* at most this many required columns are left out

colunas_esperadas ==
    << "event_name", "user_id", "client_id", "session_number", "session_id",
       "session_campaign_id", "session_campaign_name", "session_source",
       "session_medium", "event_timestamp" >>

Number(n) == [kind |-> "number", whole |-> n, half |-> FALSE]
NumberAndHalf(n) == [kind |-> "number", whole |-> n, half |-> TRUE]
EmptyCell == [kind |-> "empty"]
TextCell == [kind |-> "text"]

RawRow(e, u, c, s, t) ==
    [event_name |-> e, user_id |-> u, client_id |-> c, session_number |-> s,
     event_timestamp |-> t]

\* colunas_ausentes = [col for col in colunas_esperadas if col not in df.columns]
colunas_ausentes(columns) ==
    SelectSeq(colunas_esperadas, LAMBDA col : col \notin columns)

\* astype(int) raises on an empty cell and on text, and cuts the half off
astype_int_raises(cell) == cell.kind # "number"
astype_int(cell) == cell.whole

\* astype(float) raises on text; an empty cell is the float NaN
astype_float_raises(cell) == cell.kind = "text"
\* the plausible slip: the column is turned into seconds where it stands
astype_float_seconds(cell) ==
    IF cell.kind = "number"
    THEN [cell EXCEPT !.whole = cell.whole \div MicrosPerSecond]
    ELSE cell

astype_float(cell) == cell

\* int(timestamp) of format_timestamp and its three siblings raises on NaN
int_raises(cell) == cell.kind = "empty"

SecondsPerHour == 3600
SecondsPerDay == 86400
DaysPerWeek == 7
EpochWeekday == 4     \* 1 January 1970 was a Thursday (Monday = 1)

\* int(timestamp)/1000000, cut to whole seconds by the formats below
epoch_seconds(cell) == cell.whole \div MicrosPerSecond

\* extract_date: the day, counted from 1 January 1970 (clock of the host
\* taken as UTC)
extract_date(cell) == epoch_seconds(cell) \div SecondsPerDay

\* extract_hour
extract_hour(cell) == (epoch_seconds(cell) % SecondsPerDay) \div SecondsPerHour

\* extract_weekday: strftime('%A'), as the number of the day, Monday = 1
extract_weekday(cell) ==
    ((extract_date(cell) + EpochWeekday - 1) % DaysPerWeek) + 1

\* format_timestamp: strftime('%d/%m/%Y %H:%M:%S'), as <<day, H, M, S>>
format_timestamp(cell) ==
    << extract_date(cell), extract_hour(cell),
       (epoch_seconds(cell) % SecondsPerHour) \div SecondsPerMinute,
       epoch_seconds(cell) % SecondsPerMinute >>

\* lines 305-306
with_types(rows) ==
    [i \in DOMAIN rows |->
        [rows[i] EXCEPT !.session_number = astype_int(@),
                        !.event_timestamp = astype_float(@)]]

\* line 305 done, line 306 raised
with_int_only(rows) ==
    [i \in DOMAIN rows |-> [rows[i] EXCEPT !.session_number = astype_int(@)]]

\* line 309: df['user_id'].notna()
with_is_logged_in(rows) ==
    [i \in DOMAIN rows |->
        [event_name |-> rows[i].event_name, user_id |-> rows[i].user_id,
         client_id |-> rows[i].client_id,
         session_number |-> rows[i].session_number,
         event_timestamp |-> rows[i].event_timestamp,
         is_logged_in |-> rows[i].user_id # NaN]]

\* lines 312-315
with_dates(rows) ==
    [i \in DOMAIN rows |->
        [event_name |-> rows[i].event_name, user_id |-> rows[i].user_id,
         client_id |-> rows[i].client_id,
         session_number |-> rows[i].session_number,
         event_timestamp |-> rows[i].event_timestamp,
         is_logged_in |-> rows[i].is_logged_in,
         formatted_timestamp |-> format_timestamp(rows[i].event_timestamp),
         date |-> extract_date(rows[i].event_timestamp),
         hour |-> extract_hour(rows[i].event_timestamp),
         weekday |-> extract_weekday(rows[i].event_timestamp)]]

\* lines 318-320: (x - x.min()) / 1000000 within the (client_id,
\* session_number) group of the row; NaN (0/0 here) on a row without
\* client_id
time_since_first_event(rows, i) ==
    IF rows[i].client_id = NaN THEN [num |-> 0, den |-> 0]
    ELSE LET group == {j \in DOMAIN rows :
                          /\ rows[j].client_id = rows[i].client_id
                          /\ rows[j].session_number = rows[i].session_number}
             first == CHOOSE t \in {rows[j].event_timestamp.whole : j \in group} :
                         \A j \in group : t <= rows[j].event_timestamp.whole
         IN  [num |-> rows[i].event_timestamp.whole - first,
              den |-> MicrosPerSecond]

\* the table load_data returns: the timestamps are numbers here, and every
\* derived column is there
with_time_since_first_event(rows) ==
    [i \in DOMAIN rows |->
        [event_name |-> rows[i].event_name, user_id |-> rows[i].user_id,
         client_id |-> rows[i].client_id,
         session_number |-> rows[i].session_number,
         event_timestamp |-> rows[i].event_timestamp.whole,
         is_logged_in |-> rows[i].is_logged_in,
         formatted_timestamp |-> rows[i].formatted_timestamp,
         date |-> rows[i].date,
         hour |-> rows[i].hour,
         weekday |-> rows[i].weekday,
         time_since_first_event |-> time_since_first_event(rows, i)]]

\* the plausible slip: the handler hands back what was built so far
on_exception_return_partial(partial) == [status |-> "loaded", table |-> partial]

\* lines 323-325: st.error and return None; the table built so far is lost
on_exception(partial) == [status |-> "exception"]

\* lines 304-322 on the rows of a table
enrich(rows, fills) ==
    IF \E i \in DOMAIN rows : astype_int_raises(rows[i].session_number)
    THEN on_exception(rows)
    ELSE IF \E i \in DOMAIN rows : astype_float_raises(rows[i].event_timestamp)
    THEN on_exception(with_int_only(rows))
    ELSE IF \E i \in DOMAIN rows : int_raises(rows[i].event_timestamp)
    THEN on_exception(with_is_logged_in(with_types(rows)))
    ELSE IF ~fills /\ \E i \in DOMAIN rows : rows[i].client_id = NaN
    THEN on_exception(with_dates(with_is_logged_in(with_types(rows))))
    ELSE [status |-> "loaded",
          table |-> with_time_since_first_event(
                       with_dates(with_is_logged_in(with_types(rows))))]

\* load_data
load_data(file) ==
    IF ~file.found THEN [status |-> "not_found"]
    ELSE IF colunas_ausentes(file.columns) # <<>>
    THEN [status |-> "missing_columns",
          colunas_ausentes |-> colunas_ausentes(file.columns)]
    ELSE enrich(file.rows, file.fills)

LoadData ==
    /\ loaded_df = NotRun
    /\ loaded_df' = load_data(uploaded_file)
    /\ UNCHANGED <<journey_df, funnel, paths, conversion, flow, uploaded_file,
                   session_metrics, renormalized>>

\* the columns of a loaded table as astype reads them: int64 and float64
\* columns of whole numbers
as_cells(table) ==
    [i \in DOMAIN table |->
        [table[i] EXCEPT !.session_number = Number(@),
                         !.event_timestamp = Number(@)]]

\* lines 304-322 once more, on the table load_data returned
EnrichAgain ==
    /\ loaded_df.status = "loaded"
    /\ renormalized = NotRun
    /\ renormalized' = enrich(as_cells(loaded_df.table), uploaded_file.fills)
    /\ UNCHANGED <<journey_df, funnel, paths, conversion, flow, uploaded_file,
                   loaded_df, session_metrics>>

(***************************************************************************)
(* calculate_session_metrics.                                              *)
(***************************************************************************)
\* the plausible slip: the two times are subtracted the wrong way round
duration_seconds_reversed(start_time, end_time) ==
    [num |-> start_time - end_time, den |-> MicrosPerSecond]

\* line 395: (end_time - start_time) / 1000000
duration_seconds(start_time, end_time) ==
    [num |-> end_time - start_time, den |-> MicrosPerSecond]

\* the keys of df.groupby(['client_id', 'session_number']) in key order;
\* groupby leaves out the rows whose client_id is NaN
session_keys(table) == groupby_keys(sort_values(table, TRUE), TRUE)

\* lines 386-395: one row per group with min, max and count of the
\* timestamps, any() of is_logged_in and the duration
calculate_session_metrics(table) ==
    LET keys == session_keys(table)
        group(k) == SelectSeq(table, LAMBDA r : GroupKey(r, TRUE) = keys[k])
        times(k) == {group(k)[i].event_timestamp : i \in DOMAIN group(k)}
        start_time(k) == CHOOSE t \in times(k) : \A u \in times(k) : t <= u
        end_time(k) == CHOOSE t \in times(k) : \A u \in times(k) : u <= t
    IN  [k \in DOMAIN keys |->
            [client_id |-> keys[k][1],
             session_number |-> keys[k][2],
             start_time |-> start_time(k),
             end_time |-> end_time(k),
             events_count |-> Len(group(k)),
             is_logged_in |-> \E i \in DOMAIN group(k) : group(k)[i].is_logged_in,
             duration_seconds |-> duration_seconds(start_time(k), end_time(k))]]

CalculateSessionMetrics ==
    /\ loaded_df.status = "loaded"
    /\ session_metrics = NotRun
    /\ session_metrics' = [status |-> "computed",
                           table |-> calculate_session_metrics(loaded_df.table)]
    /\ UNCHANGED <<journey_df, funnel, paths, conversion, flow, uploaded_file,
                   loaded_df, renormalized>>

(***************************************************************************)
(* The files of the loader: every table of at most MaxLoadRows well-formed *)
(* rows, tables with one cell that is empty, text or not whole, files that *)
(* lack required columns, a file with a column more, and no file at all.   *)
(***************************************************************************)
LateMicros == 61500000       \* 61.5 s after the first timestamp of the model

LoadRows ==
    {RawRow("A", u, c, Number(s), Number(t)) :
        u \in {NaN, "id1"}, c \in {"u1", "u2", NaN}, s \in {1, 2},
        t \in {0, LateMicros}}

GoodRow == RawRow("A", "id1", "u1", Number(1), Number(LateMicros))

OddCellTables ==
    {<< GoodRow, [GoodRow EXCEPT !.session_number = c] >> :
        c \in {EmptyCell, TextCell, NumberAndHalf(1)}}
    \cup {<< GoodRow, [GoodRow EXCEPT !.event_timestamp = c] >> :
             c \in {EmptyCell, TextCell}}

LoadFiles ==
    {[found |-> TRUE, columns |-> Range(colunas_esperadas), rows |-> t,
      fills |-> f] :
        t \in SeqsUpTo(LoadRows, MaxLoadRows) \cup OddCellTables,
        f \in BOOLEAN}
    \cup {[found |-> TRUE, columns |-> Range(colunas_esperadas) \ M,
           rows |-> << GoodRow >>, fills |-> TRUE] :
             M \in {X \in SUBSET Range(colunas_esperadas) :
                       /\ X # {}
                       /\ Cardinality(X) <= MaxMissingColumns}}
    \cup {[found |-> TRUE,
           columns |-> Range(colunas_esperadas) \cup {"page_location"},
           rows |-> << GoodRow >>, fills |-> TRUE],
          [found |-> FALSE, columns |-> {}, rows |-> << >>, fills |-> TRUE]}

InitLoad ==
    /\ uploaded_file \in LoadFiles
    /\ loaded_df = NotRun
    /\ session_metrics = NotRun
    /\ renormalized = NotRun
    /\ journey_df = << >>
    /\ funnel = NotRun
    /\ paths = NotRun
    /\ conversion = NotRun
    /\ flow = NotRun

NextLoad == LoadData \/ CalculateSessionMetrics \/ EnrichAgain

SpecLoad == InitLoad /\ [][NextLoad]_vars

(***************************************************************************)
(* Properties of the loader and of the session table.                      *)
(***************************************************************************)
\* C11: every row of the session table has a duration of at least 0 seconds
\* and counts at least 1 event.
SessionDurationAndCount ==
    session_metrics.status = "computed" =>
        \A i \in DOMAIN session_metrics.table :
            /\ session_metrics.table[i].duration_seconds.num >= 0
            /\ session_metrics.table[i].duration_seconds.den > 0
            /\ session_metrics.table[i].events_count >= 1

\* a session of two events some time apart
SessionOfTwoEvents ==
    /\ session_metrics.status = "computed"
    /\ \E i \in DOMAIN session_metrics.table :
          /\ session_metrics.table[i].events_count = 2
          /\ session_metrics.table[i].duration_seconds.num > 0

\* C12 as written: the session table has exactly one row for each distinct
\* (client_id, session_number) pair of the event table, none missing and none
\* twice, and the row's start and end are the least and the greatest
\* timestamp of the pair's events.
PairsOfEvents ==
    {<< loaded_df.table[i].client_id, loaded_df.table[i].session_number >> :
        i \in DOMAIN loaded_df.table}

TimesOfPair(p) ==
    {loaded_df.table[i].event_timestamp :
        i \in {j \in DOMAIN loaded_df.table :
                  << loaded_df.table[j].client_id,
                     loaded_df.table[j].session_number >> = p}}

SessionRowPerPair ==
    session_metrics.status = "computed" =>
        /\ \A p \in PairsOfEvents :
              Cardinality({i \in DOMAIN session_metrics.table :
                  << session_metrics.table[i].client_id,
                     session_metrics.table[i].session_number >> = p}) = 1
        /\ \A i \in DOMAIN session_metrics.table :
              LET p == << session_metrics.table[i].client_id,
                          session_metrics.table[i].session_number >>
              IN  /\ p \in PairsOfEvents
                  /\ \A t \in TimesOfPair(p) :
                        /\ session_metrics.table[i].start_time <= t
                        /\ t <= session_metrics.table[i].end_time
                  /\ session_metrics.table[i].start_time \in TimesOfPair(p)
                  /\ session_metrics.table[i].end_time \in TimesOfPair(p)

\* the columns of the table load_data returns
LoadedColumns ==
    {"event_name", "user_id", "client_id", "session_number",
     "event_timestamp", "is_logged_in", "formatted_timestamp", "date", "hour",
     "weekday", "time_since_first_event"}

MissingColumns == Range(colunas_esperadas) \ uploaded_file.columns

\* session_number can be made an integer and event_timestamp a float
Coercible ==
    \A i \in DOMAIN uploaded_file.rows :
        /\ uploaded_file.rows[i].session_number.kind = "number"
        /\ uploaded_file.rows[i].event_timestamp.kind # "text"

\* a step after the coercion raises: an empty timestamp cannot be formatted,
\* and before pandas 1.5 transform fails on a row without client_id
EnrichmentRaises ==
    \/ \E i \in DOMAIN uploaded_file.rows :
          uploaded_file.rows[i].event_timestamp.kind = "empty"
    \/ /\ ~uploaded_file.fills
       /\ \E i \in DOMAIN uploaded_file.rows :
             uploaded_file.rows[i].client_id = NaN

ReportsMissingColumns ==
    /\ loaded_df.status = "missing_columns"
    /\ Range(loaded_df.colunas_ausentes) = MissingColumns
    /\ Len(loaded_df.colunas_ausentes) = Cardinality(MissingColumns)

ReturnsWholeTable ==
    /\ loaded_df.status = "loaded"
    /\ Len(loaded_df.table) = Len(uploaded_file.rows)
    /\ \A i \in DOMAIN loaded_df.table :
          DOMAIN loaded_df.table[i] = LoadedColumns

\* C13 as written: with a required column absent load_data reports exactly
\* the absent names and returns no table, with a session_number or
\* event_timestamp that cannot be coerced it returns no table, and otherwise
\* it returns the table with every derived column; never a part of it.
LoadAllOrNothingByCoercion ==
    (loaded_df # NotRun /\ uploaded_file.found) =>
        /\ MissingColumns # {} => ReportsMissingColumns
        /\ (MissingColumns = {} /\ ~Coercible) => loaded_df.status = "exception"
        /\ (MissingColumns = {} /\ Coercible) => ReturnsWholeTable
        /\ loaded_df.status = "loaded" => ReturnsWholeTable

\* C13, amended: with a required column absent load_data reports exactly the
\* absent names and returns no table; when a coercion fails or a later
\* enrichment step raises it returns no table; otherwise it returns the table
\* with every derived column; never a part of it.
LoadAllOrNothing ==
    (loaded_df # NotRun /\ uploaded_file.found) =>
        /\ MissingColumns # {} => ReportsMissingColumns
        /\ (MissingColumns = {} /\ (~Coercible \/ EnrichmentRaises)) =>
              loaded_df.status = "exception"
        /\ (MissingColumns = {} /\ Coercible /\ ~EnrichmentRaises) =>
              ReturnsWholeTable
        /\ loaded_df.status = "loaded" => ReturnsWholeTable

\* a file whose two columns were coerced and whose enrichment then raised
LoadRaisedAfterCoercion ==
    /\ uploaded_file.found
    /\ MissingColumns = {}
    /\ Coercible
    /\ loaded_df.status = "exception"

\* C14: the enrichment steps of load_data, applied to the table load_data
\* returned, give that table again.
EnrichmentIdempotent ==
    renormalized # NotRun => renormalized = loaded_df

\* the steps ran again on a table with an event later than the first of its
\* session
EnrichedAgainLateEvent ==
    /\ renormalized # NotRun
    /\ \E i \in DOMAIN loaded_df.table :
          loaded_df.table[i].time_since_first_event.num > 0
    /\ \E i \in DOMAIN loaded_df.table :
          loaded_df.table[i].event_timestamp >= MicrosPerSecond

(***************************************************************************)
(* One visit of the page: the four tabs work on one journey_df, each       *)
(* analysis is run at most once, in any order.  The tables are small       *)
(* sessions over the events A and B.                                       *)
(***************************************************************************)
\* one event only
JourneySingle == << Row("u1", 1, "A", 0) >>

\* A and B in two sessions of one client
JourneySplit == << Row("u1", 1, "A", 0), Row("u1", 2, "B", TickMicros) >>

\* B two minutes after A
JourneySlow == << Row("u1", 1, "A", 0), Row("u1", 1, "B", 2 * TickMicros) >>

\* rows out of time order, with two pairs of equal timestamps
JourneyTies ==
    << Row("u1", 1, "B", TickMicros), Row("u1", 1, "B", 0),
       Row("u1", 1, "A", TickMicros), Row("u1", 1, "A", 0) >>

\* A, B, B, A: every event twice, every pair once
JourneyLoop ==
    << Row("u1", 1, "A", 0), Row("u1", 1, "B", TickMicros),
       Row("u1", 1, "B", 2 * TickMicros), Row("u1", 1, "A", 3 * TickMicros) >>

\* A twice, B once
JourneyRare ==
    << Row("u1", 1, "A", 0), Row("u1", 1, "A", TickMicros),
       Row("u1", 1, "B", 2 * TickMicros) >>

\* rows without client_id only
JourneyMissingClient ==
    << Row(NaN, 1, "A", 0), Row(NaN, 1, "B", TickMicros) >>

\* two clients
JourneyTwoClients ==
    << Row("u1", 1, "A", 0), Row("u2", 1, "A", 0),
       Row("u2", 1, "B", TickMicros) >>

JourneyTables ==
    {<< >>, JourneySingle, JourneySplit, JourneySlow, JourneyTies, JourneyLoop,
     JourneyRare, JourneyMissingClient, JourneyTwoClients}

InitJourney ==
    /\ journey_df \in JourneyTables
    /\ funnel = NotRun
    /\ paths = NotRun
    /\ conversion = NotRun
    /\ flow = NotRun
    /\ LoaderIdle

NextJourney ==
    \/ paths = NotRun /\ CaminhosDeNavegacao
    \/ conversion = NotRun /\ (AnalisarTemposDeConversao \/ ConversaoSemEventos)
    \/ funnel = NotRun /\ (GerarFunilStrict \/ GerarFunilUnordered \/ FunilRecusado)
    \/ flow = NotRun /\ AnalisarFluxoDeEventos

SpecJourney == InitJourney /\ [][NextJourney]_vars

(***************************************************************************)
(* Properties of one visit of the page.                                    *)
(***************************************************************************)
\* the rows (by index) a group of the scope holds among the events `names`
RowsOfGroup(k, by_session, names) ==
    {i \in DOMAIN journey_df :
        /\ journey_df[i].client_id # NaN
        /\ GroupKey(journey_df[i], by_session) = k
        /\ journey_df[i].event_name \in names}

\* the rows S in chronological order, rows of one timestamp in input order
RECURSIVE InTimeOrder(_)
InTimeOrder(S) ==
    IF S = {} THEN << >>
    ELSE LET first == CHOOSE i \in S : \A j \in S \ {i} :
                         \/ journey_df[i].event_timestamp
                               < journey_df[j].event_timestamp
                         \/ /\ journey_df[i].event_timestamp
                                  = journey_df[j].event_timestamp
                            /\ i < j
         IN  << first >> \o InTimeOrder(S \ {first})

\* the event names of a group in that order
EventsInTimeOrder(k, by_session, names) ==
    LET order == InTimeOrder(RowsOfGroup(k, by_session, names))
    IN  [p \in DOMAIN order |-> journey_df[order[p]].event_name]

\* the groups of a scope
GroupsOfScope(by_session) ==
    {GroupKey(journey_df[i], by_session) :
        i \in {j \in DOMAIN journey_df : journey_df[j].client_id # NaN}}

\* how often a is directly followed by b in the groups of the scope
RECURSIVE AdjacentOccurrences(_, _, _, _, _)
AdjacentOccurrences(K, by_session, names, a, b) ==
    IF K = {} THEN 0
    ELSE LET k == CHOOSE x \in K : TRUE
             seq == EventsInTimeOrder(k, by_session, names)
         IN  Cardinality({p \in 1..(Len(seq) - 1) :
                             seq[p] = a /\ seq[p + 1] = b})
             + AdjacentOccurrences(K \ {k}, by_session, names, a, b)

\* the event names seen at least m times
NamesAtThreshold(m) ==
    {e \in EventNamesOf(journey_df) :
        Cardinality({i \in DOMAIN journey_df : journey_df[i].event_name = e})
            >= m}

\* some group holds both events with the end at most max_time minutes after
\* the start, first occurrences taken
SomeConversionInWindow ==
    \E k \in GroupsWithBoth :
        /\ Earliest(k, conversion.inputs.end_event)
              > Earliest(k, conversion.inputs.start_event)
        /\ Earliest(k, conversion.inputs.end_event)
              - Earliest(k, conversion.inputs.start_event)
              <= conversion.inputs.max_time * SecondsPerMinute * MicrosPerSecond

\* C15: when nothing meets a request's criteria (no n-gram of length L, no
\* session with both events, no conversion within the window, fewer than 2
\* events at the threshold, no surviving edge) the analysis ends in its empty
\* outcome with a message, never in a fault.
EmptyResultsHaveReason ==
    /\ (/\ paths # NotRun
        /\ \E i \in DOMAIN journey_df :
              journey_df[i].event_name \notin paths.inputs.exclude_events
        /\ SumWindows(PathGroupKeys) = 0)
          => /\ paths.status = "warning"
             /\ paths.message # ""
    /\ (ConversionAnalysed /\ GroupsWithBoth = {})
          => /\ conversion.status = "no_sessions"
             /\ conversion.message # ""
             /\ conversion.times_df = << >>
    /\ (ConversionAnalysed /\ GroupsWithBoth # {} /\ ~SomeConversionInWindow)
          => /\ conversion.status = "no_conversions"
             /\ conversion.message # ""
             /\ conversion.times_df = << >>
    /\ (/\ flow # NotRun
        /\ Cardinality(NamesAtThreshold(flow.inputs.min_occurrences)) < 2)
          => /\ flow.status = "few_events"
             /\ flow.message # ""
    /\ (/\ flow # NotRun
        /\ Cardinality(NamesAtThreshold(flow.inputs.min_occurrences)) >= 2
        /\ \A a, b \in NamesAtThreshold(flow.inputs.min_occurrences) :
              AdjacentOccurrences(GroupsOfScope(flow.inputs.by_session),
                                  flow.inputs.by_session,
                                  NamesAtThreshold(flow.inputs.min_occurrences),
                                  a, b) < flow.inputs.min_occurrences)
          => /\ flow.status = "no_edges"
             /\ flow.message # ""

\* one visit with three of the empty outcomes: no n-gram, no conversion
\* within the window and no surviving edge
ThreeEmptyResults ==
    /\ paths.status = "warning"
    /\ conversion.status = "no_conversions"
    /\ flow.status = "no_edges"

\* C16: no funnel is computed from fewer than 2 steps, no conversion timing
\* with the start event as end event, no path extraction with a length below 2.
InvalidParametersRejected ==
    /\ funnel.status \in {"strict", "unordered"} => Len(funnel.steps) >= 2
    /\ ConversionAnalysed =>
          conversion.inputs.start_event # conversion.inputs.end_event
    /\ paths # NotRun => paths.inputs.path_length >= 2

\* a visit in which the funnel was refused while paths and conversion times
\* were computed
FunnelRefusedOthersComputed ==
    /\ funnel.status = "warning"
    /\ conversion.status = "times"
    /\ paths.status = "ranked"

\* each outcome is what its analysis computes from the table as it stands
\* now, with the inputs the outcome records
FunnelOfSnapshot ==
    /\ funnel.status = "strict" =>
          \E nan_equal \in BOOLEAN :
              funnel.data =
                  create_funnel_chart(
                      SelectSeq(journey_df,
                                LAMBDA r : r.event_name \in Range(funnel.steps)),
                      funnel.steps, nan_equal)
    /\ funnel.status = "unordered" =>
          funnel.data = unordered_funnel(journey_df, funnel.steps,
                                         funnel.session_based)

PathsOfSnapshot ==
    paths # NotRun =>
        LET path_df == SelectSeq(journey_df, LAMBDA r :
                           r.event_name \notin paths.inputs.exclude_events)
            all_paths == all_paths_of(path_df, paths.inputs.path_length)
        IN  /\ paths.status = "error" <=> path_df = << >>
            /\ paths.status = "warning" <=> (path_df # << >> /\ all_paths = << >>)
            /\ paths.status = "ranked" =>
                  /\ paths.all_paths = all_paths
                  /\ paths.path_counts \in value_counts(all_paths)

ConversionOfSnapshot ==
    ConversionAnalysed =>
        conversion.times_df =
            conversion_times(journey_df, conversion.inputs.start_event,
                             conversion.inputs.end_event,
                             conversion.inputs.max_time)

FlowOfSnapshot ==
    /\ flow # NotRun =>
          (flow.status = "few_events" <=>
              Cardinality(events_to_include(journey_df,
                                            flow.inputs.min_occurrences)) < 2)
    /\ flow.status \in {"graph", "no_edges"} =>
          /\ flow.nodes = events_to_include(journey_df,
                                            flow.inputs.min_occurrences)
          /\ flow.edge_counts =
                edge_counts_of(transitions(
                    SelectSeq(journey_df,
                              LAMBDA r : r.event_name \in flow.nodes),
                    flow.inputs.by_session))

\* C17: no analysis changes the table the four tabs share, and whichever of
\* the others ran before it, in whatever order, each outcome is the one its
\* analysis computes from that table.
AnalysesIndependent ==
    /\ [][journey_df' = journey_df]_vars
    /\ [](/\ FunnelOfSnapshot
          /\ PathsOfSnapshot
          /\ ConversionOfSnapshot
          /\ FlowOfSnapshot)

\* all four analyses ran on a table that is not in time order
AllFourRanOnUnsortedTable ==
    /\ journey_df = JourneyTies
    /\ funnel.status = "strict"
    /\ paths.status = "ranked"
    /\ ConversionAnalysed
    /\ flow.status = "graph"

(***************************************************************************)
(* The strict funnel and the scope; the windows of the paths; the order of *)
(* events of one timestamp.                                                *)
(***************************************************************************)
\* the keys of the scope among the rows of the chosen steps that hold every
\* one of the first i steps; rows without client_id form keys of their own
\* when with_nan is set
KeysThroughStep(i, with_nan) ==
    LET rows == {r \in Range(journey_df) :
                    /\ r.event_name \in Range(funnel.steps)
                    /\ with_nan \/ r.client_id # NaN}
        keys == {GroupKey(r, funnel.session_based) : r \in rows}
    IN  {k \in keys :
            \A j \in 1..i :
                \E r \in rows : /\ GroupKey(r, funnel.session_based) = k
                                /\ r.event_name = funnel.steps[j]}

\* C18 as written: in the strict funnel the count after step i is the number
\* of keys of the scope (clients under user scope, (client, session) pairs
\* under session scope) that hold at least one occurrence of each of the
\* first i steps, whatever the order of the occurrences in time.  Rows
\* without client_id may or may not count as keys.
StrictCountsByScopeKey ==
    funnel.status = "strict" =>
        \A i \in DOMAIN funnel.steps :
            funnel.data.Usuarios[i]
                \in {Cardinality(KeysThroughStep(i, FALSE)),
                     Cardinality(KeysThroughStep(i, TRUE))}

\* the n-grams a group yields: position p of its events in time order starts
\* one, for p from 1 to n - L + 1
WindowsAt(k) ==
    LET seq == EventsInTimeOrder(k, TRUE,
                   EventNamesOf(journey_df) \ paths.inputs.exclude_events)
    IN  [p \in 1..(Len(seq) - paths.inputs.path_length + 1) |->
            SubSeq(seq, p, p + paths.inputs.path_length - 1)]

RECURSIVE WindowOccurrences(_, _)
WindowOccurrences(K, x) ==
    IF K = {} THEN 0
    ELSE LET k == CHOOSE y \in K : TRUE
         IN  Occurrences(WindowsAt(k), x) + WindowOccurrences(K \ {k}, x)

\* C19: a group of fewer than L events yields no n-gram, a group of n >= L
\* events yields the n - L + 1 windows of L names that start at its positions
\* 1..n-L+1 in time order, and no n-gram runs over two groups: every n-gram
\* is emitted as often as the groups hold it as a window.
PathWindowsPerGroup ==
    /\ paths.status = "ranked" =>
          \A x \in Range(paths.all_paths)
                      \cup UNION {Range(WindowsAt(k)) : k \in GroupsOfScope(TRUE)} :
              Occurrences(paths.all_paths, x)
                  = WindowOccurrences(GroupsOfScope(TRUE), x)
    /\ paths.status = "warning" =>
          \A k \in GroupsOfScope(TRUE) : WindowsAt(k) = << >>

\* the example session next to a session of one event, L = 3: one window
OneWindowBesideShortGroup ==
    /\ journey_df = SessionAndShortSession
    /\ paths.status = "ranked"
    /\ paths.inputs.path_length = 3
    /\ paths.all_paths = << << "A", "B", "C" >> >>

\* the count the flow graph keeps for a pair, 0 for a pair never seen
CountedTransitions(a, b) ==
    IF << a, b >> \in DOMAIN flow.edge_counts
    THEN flow.edge_counts[<< a, b >>] ELSE 0

\* C20: where the events of a group are put in time order (paths, flow
\* graph), events of one timestamp keep their input order: the windows and
\* the transitions are those of the one sequence ordered by timestamp and,
\* for equal timestamps, by position in the table.
TimeOrderKeepsInputOrder ==
    /\ paths.status = "ranked" =>
          \A k \in GroupsOfScope(TRUE) :
              Range(WindowsAt(k)) \subseteq Range(paths.all_paths)
    /\ flow.status \in {"graph", "no_edges"} =>
          \A a, b \in flow.nodes :
              CountedTransitions(a, b)
                  = AdjacentOccurrences(GroupsOfScope(flow.inputs.by_session),
                                        flow.inputs.by_session, flow.nodes, a, b)

\* paths and flow graph of the table with two pairs of equal timestamps: the
\* session reads B, A, B, A
TiesReadInInputOrder ==
    /\ journey_df = JourneyTies
    /\ paths.status = "ranked"
    /\ paths.inputs.path_length = 4
    /\ paths.all_paths = << << "B", "A", "B", "A" >> >>
    /\ flow.status = "graph"
    /\ CountedTransitions("B", "A") = 2
    /\ CountedTransitions("A", "B") = 1

(***************************************************************************)
(* The attributes of a conversion record.                                  *)
(***************************************************************************)
\* the rows of the (client, session) group of a record, in the table's order
RowsOfRecord(rec) ==
    SelectSeq(journey_df, LAMBDA r :
        /\ r.client_id = rec.client_id
        /\ r.session_number = rec.session_number)

\* C21: every conversion record is logged in exactly when some event of its
\* whole (client, session) group is logged in, and carries the source and the
\* medium of the first event of the whole group
ConversionAttributesOfWholeGroup ==
    conversion.status = "times" =>
        \A i \in DOMAIN conversion.times_df :
            LET rec == conversion.times_df[i]
                group == RowsOfRecord(rec)
            IN  /\ rec.is_logged_in
                       = (\E j \in DOMAIN group : group[j].is_logged_in)
                /\ rec.source = group[1].session_source
                /\ rec.medium = group[1].session_medium

\* C22: the label of a record is the sentinel whenever its source or its
\* medium is absent, and the pair source/medium only when both are present
SentinelWhenSourceOrMediumAbsent ==
    conversion.status = "times" =>
        \A i \in DOMAIN conversion.times_df :
            LET rec == conversion.times_df[i]
            IN  IF rec.source = NaN \/ rec.medium = NaN
                THEN rec.source_medium = NaoDefinido
                ELSE rec.source_medium = <<rec.source, rec.medium>>

(***************************************************************************)
(* The nodes and the edges of the flow graph.                              *)
(***************************************************************************)
\* how often b follows a in the sequences of the groups K over all events of
\* the table, with nothing or only events outside names between the two
RECURSIVE OccurrencesSkipping(_, _, _, _, _)
OccurrencesSkipping(K, by_session, names, a, b) ==
    IF K = {} THEN 0
    ELSE LET k == CHOOSE x \in K : TRUE
             seq == EventsInTimeOrder(k, by_session, EventNamesOf(journey_df))
         IN  Cardinality({pq \in (DOMAIN seq) \X (DOMAIN seq) :
                             /\ pq[1] < pq[2]
                             /\ seq[pq[1]] = a
                             /\ seq[pq[2]] = b
                             /\ \A r \in (pq[1] + 1)..(pq[2] - 1) :
                                    seq[r] \notin names})
             + OccurrencesSkipping(K \ {k}, by_session, names, a, b)

\* C23: the nodes are exactly the event names seen at least m times in the
\* table, no counted pair has an endpoint outside them, and a pair is counted
\* wherever its two events follow each other once the events seen fewer than
\* m times are taken out of the sequence (A, X, B with X rare counts A -> B).
RareEventsRemovedBeforeAdjacency ==
    flow.status \in {"graph", "no_edges"} =>
        /\ flow.nodes = NamesAtThreshold(flow.inputs.min_occurrences)
        /\ \A e \in DOMAIN flow.edge_counts :
              e[1] \in flow.nodes /\ e[2] \in flow.nodes
        /\ flow.status = "graph" =>
              \A e \in flow.edges :
                  e.source \in flow.nodes /\ e.target \in flow.nodes
        /\ \A a, b \in flow.nodes :
              CountedTransitions(a, b)
                  = OccurrencesSkipping(GroupsOfScope(flow.inputs.by_session),
                                        flow.inputs.by_session, flow.nodes, a, b)

\* A, C, B with C seen once and m = 2: A -> B is counted in both sessions
RareEventBetweenTwoNodes ==
    /\ journey_df = FlowRareEvent
    /\ flow.status = "graph"
    /\ flow.inputs.min_occurrences = 2
    /\ "C" \notin flow.nodes
    /\ CountedTransitions("A", "B") = 2

\* the groups of the scope in whose sequence b directly follows a
GroupsWithTransition(a, b) ==
    {k \in GroupsOfScope(flow.inputs.by_session) :
        AdjacentOccurrences({k}, flow.inputs.by_session, flow.nodes, a, b) > 0}

\* C24: the accumulated count of every ordered pair is the number of places
\* where the first event is directly followed by the second in the time-ordered
\* sequence of one scope group (a repeated event counts for the pair of the
\* event with itself), and every edge carries exactly the clients of the
\* groups that added to it, at least one and at most as many as its weight.
EdgeCountsAndActorSets ==
    flow.status \in {"graph", "no_edges"} =>
        /\ \A a, b \in flow.nodes :
              AdjacentOccurrences(GroupsOfScope(flow.inputs.by_session),
                                  flow.inputs.by_session, flow.nodes, a, b)
                  = IF <<a, b>> \in DOMAIN flow.edge_counts
                    THEN flow.edge_counts[<<a, b>>] ELSE 0
        /\ flow.status = "graph" =>
              \A e \in flow.edges :
                  /\ e.users = {k[1] : k \in GroupsWithTransition(e.source,
                                                                  e.target)}
                  /\ 1 <= Cardinality(e.users)
                  /\ Cardinality(e.users) <= e.weight

\* the spec's example: A -> B three times by two clients, and elsewhere an
\* event repeated in one group
EdgeOfTwoActors ==
    /\ journey_df = FlowExample
    /\ flow.status = "graph"
    /\ \E e \in flow.edges :
          /\ <<e.source, e.target, e.weight>> = <<"A", "B", 3>>
          /\ e.users = {"u1", "u2"}

(***************************************************************************)
(* The scope of the flow graph.                                            *)
(***************************************************************************)
\* rows i and j belong to one actor and, by session, to one session of it
SameScopeGroup(i, j) ==
    /\ journey_df[i].client_id # NaN
    /\ journey_df[i].client_id = journey_df[j].client_id
    /\ flow.inputs.by_session =>
          journey_df[i].session_number = journey_df[j].session_number

\* row i comes before row j in time, rows of one timestamp in input order
Earlier(i, j) ==
    \/ journey_df[i].event_timestamp < journey_df[j].event_timestamp
    \/ /\ journey_df[i].event_timestamp = journey_df[j].event_timestamp
       /\ i < j

\* row j is the chronologically next row after row i in its scope group, the
\* rows of the events below the threshold left aside
NextInGroup(i, j) ==
    /\ SameScopeGroup(i, j)
    /\ Earlier(i, j)
    /\ journey_df[i].event_name \in flow.nodes
    /\ journey_df[j].event_name \in flow.nodes
    /\ ~ \E k \in DOMAIN journey_df :
            /\ SameScopeGroup(i, k)
            /\ journey_df[k].event_name \in flow.nodes
            /\ Earlier(i, k)
            /\ Earlier(k, j)

\* C25: the counted transitions are exactly the pairs of a row and the
\* chronologically next row of the same scope group: by session both rows are
\* of one session of one actor, by user both are of one actor, also across two
\* of its sessions, and under neither scope of two different actors.
ScopeSelectsGrouping ==
    flow.status \in {"graph", "no_edges"} =>
        \A a, b \in flow.nodes :
            CountedTransitions(a, b)
                = Cardinality({ij \in (DOMAIN journey_df) \X (DOMAIN journey_df) :
                                  /\ NextInGroup(ij[1], ij[2])
                                  /\ journey_df[ij[1]].event_name = a
                                  /\ journey_df[ij[2]].event_name = b})

\* by user, the last event of one session and the first of another session of
\* the same client are a counted transition, beside a second client
TransitionAcrossSessions ==
    /\ flow.status = "graph"
    /\ ~ flow.inputs.by_session
    /\ Cardinality({journey_df[i].client_id : i \in DOMAIN journey_df}
                       \ {NaN}) = 2
    /\ \E i, j \in DOMAIN journey_df :
          /\ NextInGroup(i, j)
          /\ journey_df[i].session_number # journey_df[j].session_number
          /\ CountedTransitions(journey_df[i].event_name,
                                journey_df[j].event_name) = 1

(***************************************************************************)
(* The degrees of the nodes of the flow graph.                             *)
(***************************************************************************)
\* the sum of the values of a function over the nodes N
RECURSIVE SumOverNodes(_, _)
SumOverNodes(degree, N) ==
    IF N = {} THEN 0
    ELSE LET n == CHOOSE x \in N : TRUE
         IN  degree[n] + SumOverNodes(degree, N \ {n})

\* C26: the in-degree of a node is the sum of the weights of the edges of the
\* graph that end at it and its out-degree the sum of those that start at it
\* (an edge from a node to itself counts in both), so the in-degrees, the
\* out-degrees and the edge weights all add up to the same number.
DegreesAreWeightSums ==
    flow.status = "graph" =>
        /\ \A n \in flow.nodes :
              /\ flow.in_degree[n]
                    = SumEdgeWeights({e \in flow.edges : e.target = n})
              /\ flow.out_degree[n]
                    = SumEdgeWeights({e \in flow.edges : e.source = n})
        /\ SumOverNodes(flow.in_degree, flow.nodes)
              = SumEdgeWeights(flow.edges)
        /\ SumOverNodes(flow.out_degree, flow.nodes)
              = SumEdgeWeights(flow.edges)

\* a graph with an edge from a node to itself and an edge of weight 2 or more
DegreesWithSelfLoop ==
    /\ flow.status = "graph"
    /\ \E e \in flow.edges :
          /\ e.source = e.target
          /\ flow.in_degree[e.source] >= e.weight
          /\ flow.out_degree[e.source] > e.weight
    /\ \E e \in flow.edges : e.weight >= 2

(***************************************************************************)
(* The centrality of the nodes of the flow graph.                          *)
(***************************************************************************)
\* the ways from s to t along the edges of the graph that visit no node twice
GraphPaths(s, t) ==
    {q \in Orderings(flow.nodes, 2, Cardinality(flow.nodes)) :
        /\ q[1] = s
        /\ q[Len(q)] = t
        /\ \A i \in 1..(Len(q) - 1) :
              \E e \in flow.edges : e.source = q[i] /\ e.target = q[i + 1]}

\* the length of a way: the sum of the weights of its edges
PathLength(q) ==
    SumSeq([i \in 1..(Len(q) - 1) |->
               (CHOOSE e \in flow.edges :
                    e.source = q[i] /\ e.target = q[i + 1]).weight])

ShortestPaths(s, t) ==
    {q \in GraphPaths(s, t) :
        \A r \in GraphPaths(s, t) : PathLength(q) <= PathLength(r)}

\* the share of the shortest ways from s to t that pass through v
ShareThrough(v, s, t) ==
    IF ShortestPaths(s, t) = {} THEN Fraction(0, 1)
    ELSE Fraction(Cardinality({q \in ShortestPaths(s, t) :
                                  \E i \in 2..(Len(q) - 1) : q[i] = v}),
                  Cardinality(ShortestPaths(s, t)))

\* the betweenness of v: the shares over all ordered pairs of other nodes,
\* divided by the number of these pairs
Betweenness(v) ==
    LET others == flow.nodes \ {v}
        pairs  == SeqOfSet({st \in others \X others : st[1] # st[2]})
    IN  IF pairs = <<>> THEN Fraction(0, 1)
        ELSE FractionMul(
                 FractionSum([i \in DOMAIN pairs |->
                                 ShareThrough(v, pairs[i][1], pairs[i][2])]),
                 Fraction(1, Len(pairs)))

\* C27: every node of the graph, also one that no edge touches, has a
\* centrality, and it is its betweenness in the weighted directed graph of the
\* kept edges: the share of the shortest ways (weights as lengths) between
\* the pairs of other nodes that pass through it, the ends of a way not
\* counted; a node that no kept edge enters or none leaves has centrality 0.
CentralityIsBetweenness ==
    flow.status = "graph" =>
        /\ DOMAIN flow.centrality = flow.nodes
        /\ \A v \in flow.nodes :
              /\ flow.centrality[v] = Betweenness(v)
              /\ (\/ ~ \E e \in flow.edges : e.target = v
                  \/ ~ \E e \in flow.edges : e.source = v)
                    => flow.centrality[v] = Fraction(0, 1)

\* B lies on the shorter of the two ways from A to C: centrality 1/2
CentralityOfDetour ==
    /\ journey_df = FlowDetour
    /\ flow.status = "graph"
    /\ flow.inputs = [min_occurrences |-> 1, by_session |-> TRUE]
    /\ flow.centrality["B"] = Fraction(1, 2)
    /\ flow.centrality["A"] = Fraction(0, 1)

\* a node that no edge touches has centrality 0
CentralityOfIsolatedNode ==
    /\ journey_df = FlowExample
    /\ flow.status = "graph"
    /\ flow.inputs.min_occurrences = 2
    /\ "C" \in flow.nodes
    /\ flow.centrality["C"] = Fraction(0, 1)

\* B lies on one of the two shortest ways from A to D: centrality 1/12
CentralityOfDiamond ==
    /\ journey_df = FlowDiamond
    /\ flow.status = "graph"
    /\ flow.centrality["B"] = Fraction(1, 12)

(***************************************************************************)
(* The strict funnel: scope and order of the steps.                        *)
(***************************************************************************)
\* the client_id values that are seen with every one of the events; the rows
\* without client_id count as one client where their NaN is one object
ClientsWithAll(events) ==
    {c \in {journey_df[i].client_id : i \in DOMAIN journey_df} :
        /\ c = NaN => funnel.nan_equal
        /\ \A e \in events :
              \E i \in DOMAIN journey_df :
                  /\ journey_df[i].client_id = c
                  /\ journey_df[i].event_name = e}

LastCount(steps) ==
    create_funnel_chart(
        SelectSeq(journey_df, LAMBDA r : r.event_name \in Range(steps)),
        steps, funnel.nan_equal).Usuarios[Len(steps)]

FirstOccurrencesDecide ==
    ConversionAnalysed =>
        /\ \A k \in GroupsWithBoth :
              Earliest(k, conversion.inputs.end_event)
                  <= Earliest(k, conversion.inputs.start_event)
                => RecordsOf(k) = {}
        /\ \A i, j \in DOMAIN conversion.times_df :
              (/\ conversion.times_df[i].client_id
                     = conversion.times_df[j].client_id
               /\ conversion.times_df[i].session_number
                     = conversion.times_df[j].session_number) => i = j
        /\ \A i \in DOMAIN conversion.times_df :
              LET elapsed == conversion.times_df[i].time_diff_seconds
              IN  /\ elapsed.num > 0
                  /\ elapsed.num
                        <= conversion.inputs.max_time * SecondsPerMinute
                               * elapsed.den

\* end, start, end a minute apart: the second end event follows the start
\* within the window, and the session has no record
LaterEndEventIgnored ==
    /\ ConversionAnalysed
    /\ \E k \in GroupsWithBoth :
          /\ Earliest(k, conversion.inputs.end_event)
                <= Earliest(k, conversion.inputs.start_event)
          /\ \E t \in TimesOf(k, conversion.inputs.end_event) :
                /\ t > Earliest(k, conversion.inputs.start_event)
                /\ t - Earliest(k, conversion.inputs.start_event)
                      <= conversion.inputs.max_time * SecondsPerMinute
                             * MicrosPerSecond
          /\ RecordsOf(k) = {}

====
